---- MODULE Spec2Model ----
(***************************************************************************)
(* Model of the competing-PR evaluation scripts:                           *)
(*   - FeatureDetector (feature-detector.js): relatedness of two pull      *)
(*     requests and the grouping of open pull requests by feature;         *)
(*   - PRScorer (pr-scorer.js): the five sub-scores, the weighted score,   *)
(*     the threshold verdicts and the default report.                      *)
(* Strings whose characters matter (branch names, titles, labels,          *)
(* patterns) are sequences of one-character strings.  Fractions are        *)
(* compared by cross multiplication; scores are kept as integers scaled    *)
(* by SCALE.                                                               *)
(***************************************************************************)
EXTENDS Integers, Sequences, FiniteSets, TLC

VARIABLES
  \* ---- FeatureDetector.groupPRsByFeature (two consecutive calls) ----
  prs,        \* the argument of groupPRsByFeature: a list of PR numbers
  openPRs,    \* what octokit.rest.pulls.list returns (created desc)
  outage,     \* the collaborator call that fails during the current call
  idx,        \* position of the for-loop over prs
  groups,     \* local `groups`
  processed,  \* local `processed`
  run,        \* 1: first call, 2: second call on the same list
  gpc,        \* "idle" | "loop" | "returned"
  groups1,    \* the groups returned by the first call
  outage1,    \* the outage in force during the first call
  \* ---- FeatureDetector.isPRRelated on a pair ----
  relA, relB,     \* the two pull requests
  relGh,          \* labels, files and outage of the hosting collaborator
  relCfg,         \* this.config.featureDetection
  relAB, relBA,   \* isPRRelated(a, b) and isPRRelated(b, a)
  relPc,
  \* ---- PRScorer.scorePR ----
  pr,         \* the argument of scorePR
  config,     \* this.config.scoring
  pc,         \* position inside scorePR
  scores,     \* local `scores`: criterion -> scaled score, or NoScore
  failed,     \* criteria whose computation raised, with the place
  report,     \* what scorePR returned
  \* ---- PRScorer.scorePR called twice on one proposal ----
  answers,    \* what the hosting collaborator answers about the proposal
  report1,    \* the report of the first call
  \* ---- selection of the winner of a feature group ----
  members,      \* the members of the group: number and created_at
  memberScore,  \* member number -> weightedScore of its report, or NoScore
  winner,       \* the number of the declared winner, 0 before
  wpc,          \* "idle" | "scoring" | "declared"
  \* ---- CodeAnalyzer on the file list of a proposal ----
  files,        \* the list returned by getPRFiles
  analysis,     \* operation -> its result, Raised, or Pending
  apc,          \* the operation called next
  \* ---- SnippetExtractor.evaluateSnippetQuality ----
  qarg,         \* the argument `snippet`: a text or an object
  quality,      \* the returned {score, reasoning}
  qpc,
  \* ---- SnippetExtractor.extractSuperiorSnippets ----
  winningFiles, \* the files of the winning pull request
  losingPRs,    \* the argument losingPRs
  lidx,         \* position of the for-loop over losingPRs
  snippets,     \* local `snippets`
  ranked,       \* the returned list
  spc,          \* "idle" | "loop" | "returned"
  \* ---- one operation of the analyzers called on one argument ----
  callArg,      \* the argument
  callResult,   \* what the operation returned
  callPc        \* "idle" | "call" | "returned"

grpVars == <<prs, openPRs, outage, idx, groups, processed, run, gpc, groups1, outage1>>
relVars == <<relA, relB, relGh, relCfg, relAB, relBA, relPc>>
scoVars == <<pr, config, pc, scores, failed, report>>
rescVars == <<answers, report1>>
winVars == <<members, memberScore, winner, wpc>>
anaVars == <<files, analysis, apc>>
quaVars == <<qarg, quality, qpc>>
snipVars == <<winningFiles, losingPRs, lidx, snippets, ranked, spc>>
callVars == <<callArg, callResult, callPc>>
extVars == <<rescVars, winVars, anaVars, quaVars, snipVars, callVars>>
vars == <<grpVars, relVars, scoVars, extVars>>

(***************************************************************************)
(* Bounds                                                                  *)
(***************************************************************************)
MaxPRs == 3          \* longest list handed to groupPRsByFeature
MaxVuln == 5         \* largest vulnerability count the scanner reports

(***************************************************************************)
(* Small helpers                                                           *)
(***************************************************************************)
Min(a, b) == IF a < b THEN a ELSE b
Max(a, b) == IF a > b THEN a ELSE b
Range(s) == {s[i] : i \in 1..Len(s)}
Frac(n, d) == [num |-> n, den |-> d]
\* a > b for fractions with positive denominators
FracGT(a, b) == a.num * b.den > b.num * a.den

RECURSIVE SeqOfSetDesc(_)
\* a set of numbers as a list, largest first
SeqOfSetDesc(S) ==
  IF S = {} THEN <<>>
  ELSE LET m == CHOOSE x \in S : \A y \in S : y <= x
       IN <<m>> \o SeqOfSetDesc(S \ {m})

(***************************************************************************)
(* String operations of the JavaScript runtime and of the `similarity`     *)
(* package, on sequences of characters                                     *)
(***************************************************************************)
LowerOf(c) ==
  CASE c = "A" -> "a" [] c = "B" -> "b" [] c = "C" -> "c" [] c = "D" -> "d"
    [] c = "E" -> "e" [] c = "F" -> "f" [] c = "G" -> "g" [] c = "H" -> "h"
    [] c = "I" -> "i" [] c = "J" -> "j" [] c = "K" -> "k" [] c = "L" -> "l"
    [] c = "M" -> "m" [] c = "N" -> "n" [] c = "O" -> "o" [] c = "P" -> "p"
    [] c = "Q" -> "q" [] c = "R" -> "r" [] c = "S" -> "s" [] c = "T" -> "t"
    [] c = "U" -> "u" [] c = "V" -> "v" [] c = "W" -> "w" [] c = "X" -> "x"
    [] c = "Y" -> "y" [] c = "Z" -> "z"
    [] OTHER -> c

\* String.prototype.toLowerCase
ToLower(s) == [i \in 1..Len(s) |-> LowerOf(s[i])]

\* needle occurs in hay starting at position p
OccursAt(hay, needle, p) ==
  /\ p >= 1
  /\ p + Len(needle) - 1 <= Len(hay)
  /\ \A k \in 1..Len(needle) : hay[p + k - 1] = needle[k]

\* String.prototype.includes
Includes(hay, needle) == \E p \in 1..(Len(hay) + 1) : OccursAt(hay, needle, p)

RECURSIVE LevRowBuild(_, _, _, _)
LevRowBuild(prev, ca, b, acc) ==
  IF Len(acc) = Len(b) + 1 THEN acc
  ELSE LET j == Len(acc)
           cost == IF ca = b[j] THEN 0 ELSE 1
           v == Min(Min(prev[j + 1] + 1, acc[j] + 1), prev[j] + cost)
       IN LevRowBuild(prev, ca, b, Append(acc, v))

RECURSIVE LevRows(_, _, _, _)
LevRows(a, b, i, prev) ==
  IF Len(prev) = Len(b) + 1 /\ i > Len(a) THEN prev[Len(b) + 1]
  ELSE LevRows(a, b, i + 1, LevRowBuild(prev, a[i], b, <<i>>))

\* edit distance used by the `similarity` package
Levenshtein(a, b) == LevRows(a, b, 1, [j \in 1..(Len(b) + 1) |-> j - 1])

\* similarity(a, b) of the `similarity` package: 0 for an empty argument,
\* 1 for equal strings, else (longest - distance) / longest
similarity(a, b) ==
  IF Len(a) = 0 \/ Len(b) = 0 THEN Frac(0, 1)
  ELSE IF a = b THEN Frac(1, 1)
  ELSE LET longest == Max(Len(a), Len(b))
       IN Frac(longest - Levenshtein(ToLower(a), ToLower(b)), longest)

(***************************************************************************)
(* FeatureDetector: relatedness of two pull requests                       *)
(***************************************************************************)
\* position of the first "*" of a branch pattern, 0 when there is none
StarPos(pattern) ==
  IF \E i \in 1..Len(pattern) : pattern[i] = "*"
  THEN CHOOSE i \in 1..Len(pattern) :
         pattern[i] = "*" /\ \A k \in 1..(i - 1) : pattern[k] # "*"
  ELSE 0

\* branch.match(new RegExp(pattern.replace('*', '(.+)'))): the leftmost
\* occurrence of the text before the wildcard, a greedy non-empty capture,
\* then the text after the wildcard.  ok = the match is not null,
\* cap = match[1].
RegexMatch(branch, pattern) ==
  LET sp == StarPos(pattern)
      pre == SubSeq(pattern, 1, sp - 1)
      post == SubSeq(pattern, sp + 1, Len(pattern))
      Fits(s, e) == /\ OccursAt(branch, pre, s)
                    /\ e >= s + Len(pre)
                    /\ e <= Len(branch)
                    /\ OccursAt(branch, post, e + 1)
      starts == {s \in 1..Len(branch) : \E e \in 1..Len(branch) : Fits(s, e)}
  IN IF starts = {} THEN [ok |-> FALSE, cap |-> <<>>]
     ELSE LET s == CHOOSE x \in starts : \A y \in starts : x <= y
              ends == {e \in 1..Len(branch) : Fits(s, e)}
              e == CHOOSE x \in ends : \A y \in ends : y <= x
          IN [ok |-> TRUE, cap |-> SubSeq(branch, s + Len(pre), e)]

BranchSimilarityMin == Frac(6, 10)

isBranchRelated(branch1, branch2, cfg) ==
  \E i \in 1..Len(cfg.branchPatterns) :
    LET match1 == RegexMatch(branch1, cfg.branchPatterns[i])
        match2 == RegexMatch(branch2, cfg.branchPatterns[i])
    IN /\ match1.ok
       /\ match2.ok
       /\ FracGT(similarity(ToLower(match1.cap), ToLower(match2.cap)),
                 BranchSimilarityMin)

\* octokit.rest.pulls.get / pulls.listFiles for pull request n raise
GetFails(gh, n) == gh.outage.kind = "get" /\ gh.outage.n = n
FilesFail(gh, n) == gh.outage.kind = "files" /\ gh.outage.n = n

\* "true" | "false" | "throw"
areLabelsRelated(pr1, pr2, cfg, gh) ==
  IF GetFails(gh, pr1.number) \/ GetFails(gh, pr2.number) THEN "throw"
  ELSE LET labels1 == {ToLower(l) : l \in gh.labels[pr1.number]}
           labels2 == {ToLower(l) : l \in gh.labels[pr2.number]}
       IN IF \E k \in 1..Len(cfg.labelKeywords) :
               /\ \E l \in labels1 : Includes(l, cfg.labelKeywords[k])
               /\ \E l \in labels2 : Includes(l, cfg.labelKeywords[k])
          THEN "true" ELSE "false"

areTitlesRelated(title1, title2, cfg) ==
  FracGT(similarity(ToLower(title1), ToLower(title2)),
         cfg.titleSimilarityThreshold)

\* a plausible slip: the overlap is divided by the size of the first set
OverlapOfFirstExceeds(fileSet1, fileSet2, threshold) ==
  LET intersection == fileSet1 \cap fileSet2
  IN /\ fileSet1 # {}
     /\ FracGT(Frac(Cardinality(intersection), Cardinality(fileSet1)), threshold)

\* the overlap ratio of an empty union is NaN, which exceeds nothing
OverlapExceeds(fileSet1, fileSet2, threshold) ==
  LET intersection == fileSet1 \cap fileSet2
      union == fileSet1 \cup fileSet2
  IN /\ union # {}
     /\ FracGT(Frac(Cardinality(intersection), Cardinality(union)), threshold)

\* "true" | "false" | "throw"
hasFileOverlap(pr1, pr2, cfg, gh) ==
  IF FilesFail(gh, pr1.number) \/ FilesFail(gh, pr2.number) THEN "throw"
  ELSE IF OverlapExceeds(gh.files[pr1.number], gh.files[pr2.number],
                         cfg.fileOverlapThreshold)
       THEN "true" ELSE "false"

\* "true" | "false" | "throw"
isPRRelated(pr1, pr2, cfg, gh) ==
  IF isBranchRelated(pr1.head.ref, pr2.head.ref, cfg) THEN "true"
  ELSE LET byLabels == areLabelsRelated(pr1, pr2, cfg, gh)
       IN IF byLabels # "false" THEN byLabels
          ELSE IF areTitlesRelated(pr1.title, pr2.title, cfg) THEN "true"
          ELSE hasFileOverlap(pr1, pr2, cfg, gh)

(***************************************************************************)
(* The repository under evaluation.  Pull requests 1..3 are the three      *)
(* competing branches of test-setup.md; 4 overlaps with 2 only; 5 overlaps *)
(* with nothing.  A pull request's number is its position.                 *)
(***************************************************************************)
World == <<
  [ref |-> <<"f","e","a","t","u","r","e","/","a","u","t","h","-","l","o","g","i","n">>,
   title |-> <<"A","d","d"," ","u","s","e","r"," ","l","o","g","i","n"," ","f","u","n","c","t","i","o","n","a","l","i","t","y">>,
   labels |-> {},
   files |-> {"auth.md"},
   login |-> "dev1"],
  [ref |-> <<"f","e","a","t","u","r","e","/","a","u","t","h","-","s","y","s","t","e","m">>,
   title |-> <<"C","o","m","p","r","e","h","e","n","s","i","v","e"," ","a","u","t","h","e","n","t","i","c","a","t","i","o","n"," ","s","y","s","t","e","m">>,
   labels |-> {},
   files |-> {"auth.md","auth.test.js"},
   login |-> "dev2"],
  [ref |-> <<"f","e","a","t","u","r","e","/","a","u","t","h","-","m","o","d","u","l","e">>,
   title |-> <<"M","o","d","u","l","a","r"," ","a","u","t","h"," ","i","m","p","l","e","m","e","n","t","a","t","i","o","n">>,
   labels |-> {},
   files |-> {"auth.md","AUTH_README.md"},
   login |-> "dev3"],
  [ref |-> <<"t","e","s","t","s","/","a","u","t","h","-","c","o","v","e","r","a","g","e">>,
   title |-> <<"A","u","t","h"," ","t","e","s","t","s">>,
   labels |-> {<<"E","n","h","a","n","c","e","m","e","n","t">>},
   files |-> {"auth.test.js"},
   login |-> "dev4"],
  [ref |-> <<"f","i","x","/","t","y","p","o">>,
   title |-> <<"F","i","x"," ","t","y","p","o">>,
   labels |-> {<<"b","u","g">>},
   files |-> {"notes.txt"},
   login |-> "dev5"]
>>

PRNums == 1..Len(World)

\* an element of the list returned by pulls.list
PullRequest(n) ==
  [number |-> n,
   title |-> World[n].title,
   head |-> [ref |-> World[n].ref],
   user |-> [login |-> World[n].login],
   created_at |-> n,
   updated_at |-> n]

NoOutage == [kind |-> "none", n |-> 0]
\* one failing call: pulls.list made for anchor n (n = 0: for every anchor),
\* pulls.get of pull request n, pulls.listFiles of pull request n
ListOutage == [kind |-> "list", n |-> 0]
Outages ==
  {NoOutage, ListOutage}
    \cup {[kind |-> k, n |-> n] : k \in {"list", "get", "files"}, n \in PRNums}

\* the hosting collaborator while outage o lasts
Hosting(o) ==
  [labels |-> [n \in PRNums |-> World[n].labels],
   files |-> [n \in PRNums |-> World[n].files],
   outage |-> o]

\* featureDetection section of config/evaluation-config.json
DefaultFeatureDetection ==
  [branchPatterns |-> <<<<"f","e","a","t","u","r","e","/","*">>,
                       <<"f","e","a","t","/","*">>,
                       <<"e","n","h","a","n","c","e","m","e","n","t","/","*">>,
                       <<"i","m","p","r","o","v","e","m","e","n","t","/","*">>>>,
   titleSimilarityThreshold |-> Frac(7, 10),
   fileOverlapThreshold |-> Frac(3, 10),
   labelKeywords |-> <<<<"f","e","a","t","u","r","e">>,
                       <<"e","n","h","a","n","c","e","m","e","n","t">>,
                       <<"n","e","w","-","f","e","a","t","u","r","e">>,
                       <<"i","m","p","r","o","v","e","m","e","n","t">>>>]

(***************************************************************************)
(* FeatureDetector: detection of the pull requests related to one, and     *)
(* grouping                                                                *)
(***************************************************************************)
\* the answer of isPRRelated(currentPR, pr) for every pair of the
\* repository and every outage, computed once
RelatedAnswer ==
  [o \in Outages |-> [a \in PRNums |-> [b \in PRNums |->
     isPRRelated(PullRequest(a), PullRequest(b), DefaultFeatureDetection, Hosting(o))]]]

\* the object pushed on relatedPRs
RelatedEntry(p) ==
  [number |-> p.number,
   title |-> p.title,
   head |-> p.head.ref,
   author |-> p.user.login,
   created_at |-> p.created_at,
   updated_at |-> p.updated_at]

RECURSIVE CollectRelated(_, _, _, _, _)
\* the for-loop of detectRelatedPRs from position k on; a raised error
\* leaves the loop for the catch block, which returns []
CollectRelated(currentPR, open, o, k, relatedPRs) ==
  IF k > Len(open) THEN relatedPRs
  ELSE IF open[k] = currentPR.number
       THEN CollectRelated(currentPR, open, o, k + 1, relatedPRs)
  ELSE LET isRelated == RelatedAnswer[o][currentPR.number][open[k]]
       IN IF isRelated = "throw" THEN <<>>
          ELSE IF isRelated = "true"
               THEN CollectRelated(currentPR, open, o, k + 1,
                                   Append(relatedPRs, RelatedEntry(PullRequest(open[k]))))
          ELSE CollectRelated(currentPR, open, o, k + 1, relatedPRs)

\* a plausible slip: only the first related pull request is kept
detectRelatedPRsFirstOnly(currentPR, open, o) ==
  LET all == IF o.kind = "list" /\ o.n \in {0, currentPR.number} THEN <<>>
             ELSE CollectRelated(currentPR, open, o, 1, <<>>)
  IN IF all = <<>> THEN all ELSE <<all[1]>>

detectRelatedPRs(currentPR, open, o) ==
  IF o.kind = "list" /\ o.n \in {0, currentPR.number} THEN <<>>
  ELSE CollectRelated(currentPR, open, o, 1, <<>>)

\* String.prototype.replace(/-/g, ' ').replace(/_/g, ' ')
DashesToSpaces(s) ==
  [i \in 1..Len(s) |-> IF s[i] = "-" \/ s[i] = "_" THEN " " ELSE s[i]]

extractFeatureName(p) ==
  LET patterns == DefaultFeatureDetection.branchPatterns
      hits == {i \in 1..Len(patterns) : RegexMatch(p.head.ref, patterns[i]).ok}
  IN IF hits # {}
     THEN LET i == CHOOSE x \in hits : \A y \in hits : x <= y
          IN DashesToSpaces(RegexMatch(p.head.ref, patterns[i]).cap)
     ELSE SubSeq(p.title, 1, Min(50, Len(p.title)))

\* a plausible slip: `processed` kept on the instance across calls
NewProcessedKept(old) == old

\* `const processed = new Set()` at the start of a call
NewProcessed(old) == {}

\* the members of a group, by number
MemberNumbers(g) == {g.prs[i].number : i \in 1..Len(g.prs)}

\* the body of the for-loop of groupPRsByFeature for one unprocessed pr:
\* the group it pushes, or NoGroup
NoGroup == [feature |-> <<>>, prs |-> <<>>]

\* a plausible slip: `relatedPRs.length >= 0`
AnchorGroupAlways(p, open, o) ==
  [feature |-> extractFeatureName(p), prs |-> <<p>> \o detectRelatedPRs(p, open, o)]

AnchorGroup(p, open, o) ==
  LET relatedPRs == detectRelatedPRs(p, open, o)
  IN IF Len(relatedPRs) > 0
     THEN [feature |-> extractFeatureName(p), prs |-> <<p>> \o relatedPRs]
     ELSE NoGroup

(***************************************************************************)
(* groupPRsByFeature as a state machine: one action per pass of the        *)
(* for-loop, then the return; the caller then calls it a second time on    *)
(* the same list.                                                          *)
(***************************************************************************)
\* lists of at most n distinct elements of S
ListsOf(S, n) ==
  UNION {{l \in [1..k -> S] : \A i, j \in 1..k : i # j => l[i] # l[j]} : k \in 0..n}

\* the parts of the state a specification does not use
RelIdle ==
  /\ relA = 0 /\ relB = 0 /\ relGh = 0 /\ relCfg = 0
  /\ relAB = "none" /\ relBA = "none" /\ relPc = "idle"
ScoIdle ==
  /\ pr = 0 /\ config = 0 /\ pc = "idle"
  /\ scores = <<>> /\ failed = {} /\ report = 0
GrpIdle ==
  /\ prs = <<>> /\ openPRs = <<>> /\ outage = 0 /\ idx = 0 /\ groups = <<>>
  /\ processed = {} /\ run = 0 /\ gpc = "idle" /\ groups1 = <<>> /\ outage1 = 0
ResIdle == answers = 0 /\ report1 = 0
WinIdle == members = {} /\ memberScore = <<>> /\ winner = 0 /\ wpc = "idle"
AnaIdle == files = <<>> /\ analysis = <<>> /\ apc = "idle"
QuaIdle == qarg = 0 /\ quality = 0 /\ qpc = "idle"
SnipIdle ==
  /\ winningFiles = <<>> /\ losingPRs = <<>> /\ lidx = 0
  /\ snippets = <<>> /\ ranked = <<>> /\ spc = "idle"
CallIdle == callArg = 0 /\ callResult = 0 /\ callPc = "idle"
ExtIdle == ResIdle /\ WinIdle /\ AnaIdle /\ QuaIdle /\ SnipIdle /\ CallIdle

GroupInit ==
  /\ prs \in ListsOf(PRNums, MaxPRs)
  /\ \E extra \in {{}} \cup {{x} : x \in PRNums \ Range(prs)} :
       openPRs = SeqOfSetDesc(Range(prs) \cup extra)
  /\ outage \in {o \in Outages : o.n \in {0} \cup Range(openPRs)}
  /\ idx = 1
  /\ groups = <<>>
  /\ processed = NewProcessed({})
  /\ run = 1
  /\ gpc = "loop"
  /\ groups1 = <<>>
  /\ outage1 = NoOutage
  /\ RelIdle
  /\ ScoIdle
  /\ ExtIdle

InLoop == gpc = "loop" /\ idx <= Len(prs)

\* line 190: the pull request is already in a group
SkipProcessed ==
  /\ InLoop
  /\ prs[idx] \in processed
  /\ idx' = idx + 1
  /\ UNCHANGED <<prs, openPRs, outage, groups, processed, run, gpc, groups1, outage1>>
  /\ UNCHANGED <<relVars, scoVars, extVars>>

\* lines 192-203 with a non-empty relatedPRs
FormGroup ==
  /\ InLoop
  /\ prs[idx] \notin processed
  /\ LET group == AnchorGroup(PullRequest(prs[idx]), openPRs, outage)
     IN /\ group # NoGroup
        /\ groups' = Append(groups, group)
        /\ processed' = processed \cup MemberNumbers(group)
  /\ idx' = idx + 1
  /\ UNCHANGED <<prs, openPRs, outage, run, gpc, groups1, outage1>>
  /\ UNCHANGED <<relVars, scoVars, extVars>>

\* lines 192-193 with an empty relatedPRs
LeaveUngrouped ==
  /\ InLoop
  /\ prs[idx] \notin processed
  /\ AnchorGroup(PullRequest(prs[idx]), openPRs, outage) = NoGroup
  /\ idx' = idx + 1
  /\ UNCHANGED <<prs, openPRs, outage, groups, processed, run, gpc, groups1, outage1>>
  /\ UNCHANGED <<relVars, scoVars, extVars>>

\* line 206
ReturnGroups ==
  /\ gpc = "loop"
  /\ idx > Len(prs)
  /\ gpc' = "returned"
  /\ groups1' = IF run = 1 THEN groups ELSE groups1
  /\ outage1' = IF run = 1 THEN outage ELSE outage1
  /\ UNCHANGED <<prs, openPRs, outage, idx, groups, processed, run>>
  /\ UNCHANGED <<relVars, scoVars, extVars>>

\* the second call on the same list; the outage lasts or has ended
CallAgain ==
  /\ gpc = "returned"
  /\ run = 1
  /\ run' = 2
  /\ gpc' = "loop"
  /\ idx' = 1
  /\ groups' = <<>>
  /\ processed' = NewProcessed(processed)
  /\ outage' \in {outage, NoOutage}
  /\ UNCHANGED <<prs, openPRs, groups1, outage1>>
  /\ UNCHANGED <<relVars, scoVars, extVars>>

GroupNext == SkipProcessed \/ FormGroup \/ LeaveUngrouped \/ ReturnGroups \/ CallAgain

Spec == GroupInit /\ [][GroupNext]_vars

(***************************************************************************)
(* Properties of grouping                                                  *)
(***************************************************************************)
\* isPRRelated(a, b) answers true while the current outage lasts
Related(a, b) == RelatedAnswer[outage][a][b] = "true"
GroupedNumbers == UNION {MemberNumbers(groups[k]) : k \in 1..Len(groups)}
Memberships(gs) == {MemberNumbers(gs[k]) : k \in 1..Len(gs)}

\* C1: every proposal appears in at most one emitted group (a proposal
\* already marked processed by an earlier group is not collected again).
C1_AtMostOneGroup ==
  \A i, j \in 1..Len(groups) :
    i # j => MemberNumbers(groups[i]) \cap MemberNumbers(groups[j]) = {}

\* C2: every emitted group is an anchor plus a non-empty list of other
\* proposals, each directly related to the anchor, so it has at least two
\* distinct members; a proposal related to no other proposal is in no group.
C2_GroupShape ==
  /\ \A k \in 1..Len(groups) :
       LET g == groups[k]
       IN /\ Len(g.prs) >= 2
          /\ Cardinality(MemberNumbers(g)) = Len(g.prs)
          /\ \A m \in 2..Len(g.prs) :
               /\ g.prs[m].number # g.prs[1].number
               /\ Related(g.prs[1].number, g.prs[m].number)
  /\ \A n \in PRNums :
       (\A m \in Range(openPRs) \ {n} : ~Related(n, m) /\ ~Related(m, n))
         => n \notin GroupedNumbers

\* a call has returned a group and has left an unrelated proposal out
C2_Witness ==
  /\ gpc = "returned"
  /\ Len(groups) >= 1
  /\ \E n \in Range(prs) :
       /\ n \notin GroupedNumbers
       /\ \A m \in Range(openPRs) \ {n} : ~Related(n, m) /\ ~Related(m, n)

\* C4: a second call on the same list, the collaborator answering as in the
\* first call, returns the same groups with the same membership.
C4_Idempotent ==
  (gpc = "returned" /\ run = 2 /\ outage = outage1)
    => /\ Len(groups) = Len(groups1)
       /\ Memberships(groups) = Memberships(groups1)

\* the second call has returned groups under the same collaborator answers
C4_Witness ==
  /\ gpc = "returned"
  /\ run = 2
  /\ outage = outage1
  /\ Len(groups) >= 1

\* every pair of the list satisfies isPRRelated
PairwiseRelated == \A a, b \in Range(prs) : a # b => Related(a, b)

\* C5: when the collaborator lists exactly the (two or more) proposals of
\* the list and every pair of them satisfies isPRRelated, exactly one group
\* is emitted and it contains all of them; the three auth proposals of the
\* test scenario form one group of three in every iteration order.
C5_OneGroupOfAll ==
  (/\ gpc = "returned"
   /\ Len(prs) >= 2
   /\ Range(openPRs) = Range(prs)
   /\ outage.kind # "list"
   /\ PairwiseRelated)
    => /\ Len(groups) = 1
       /\ MemberNumbers(groups[1]) = Range(prs)

\* the three auth proposals, the second one iterated first, in one group
C5_Witness ==
  /\ gpc = "returned"
  /\ Len(prs) = 3
  /\ prs[1] = 2
  /\ Range(prs) = {1, 2, 3}
  /\ Range(openPRs) = {1, 2, 3}
  /\ outage = NoOutage
  /\ Len(groups) = 1
  /\ Len(groups[1].prs) = 3

(***************************************************************************)
(* isPRRelated on pairs of pull requests drawn from small sets, asked in   *)
(* both directions                                                         *)
(***************************************************************************)
RelBranches == {<<"f","/","a","b","c">>, <<"f","/","A","b","x">>, <<"x","/","a","b","c">>}
RelTitles == {<<"A","b","c">>, <<"a","b","x">>, <<"x","y","z">>}
RelLabelSets == {{}, {<<"N","e","w","-","F","e","a","t","u","r","e">>}, {<<"b","u","g">>}}
RelFileSets == {{}, {"a"}, {"a", "b"}, {"a", "b", "c", "d"}}
RelConfigs ==
  {[branchPatterns |-> <<<<"f","/","*">>>>,
    titleSimilarityThreshold |-> Frac(7, 10),
    fileOverlapThreshold |-> Frac(3, 10),
    labelKeywords |-> <<<<"f","e","a","t","u","r","e">>>>],
   [branchPatterns |-> <<<<"f","e","a","t","/","*">>, <<"/","*">>>>,
    titleSimilarityThreshold |-> Frac(1, 2),
    fileOverlapThreshold |-> Frac(1, 2),
    labelKeywords |-> <<<<"b","u","g">>, <<"f","e","a","t","u","r","e">>>>]}
RelOutages == {NoOutage, [kind |-> "get", n |-> 1], [kind |-> "files", n |-> 2]}

RelPR(n, ref, title) ==
  [number |-> n, title |-> title, head |-> [ref |-> ref],
   user |-> [login |-> "dev"], created_at |-> n, updated_at |-> n]

RelInit ==
  /\ \E r1, r2 \in RelBranches, t1, t2 \in RelTitles :
       /\ relA = RelPR(1, r1, t1)
       /\ relB = RelPR(2, r2, t2)
  /\ \E l1, l2 \in RelLabelSets, f1, f2 \in RelFileSets, o \in RelOutages :
       relGh = [labels |-> <<l1, l2>>, files |-> <<f1, f2>>, outage |-> o]
  /\ relCfg \in RelConfigs
  /\ relAB = "none"
  /\ relBA = "none"
  /\ relPc = "ab"
  /\ GrpIdle
  /\ ScoIdle
  /\ ExtIdle

AskForward ==
  /\ relPc = "ab"
  /\ relAB' = isPRRelated(relA, relB, relCfg, relGh)
  /\ relPc' = "ba"
  /\ UNCHANGED <<relA, relB, relGh, relCfg, relBA>>
  /\ UNCHANGED <<grpVars, scoVars, extVars>>

AskBackward ==
  /\ relPc = "ba"
  /\ relBA' = isPRRelated(relB, relA, relCfg, relGh)
  /\ relPc' = "done"
  /\ UNCHANGED <<relA, relB, relGh, relCfg, relAB>>
  /\ UNCHANGED <<grpVars, scoVars, extVars>>

RelNext == AskForward \/ AskBackward

SpecRel == RelInit /\ [][RelNext]_vars

\* C3: isPRRelated(a, b) = isPRRelated(b, a) for every pair of proposals
\* and every configuration (the answer is true, false or a raised error).
C3_Symmetric == relPc = "done" => relAB = relBA

\* both directions answered true through the file overlap alone
C3_Witness ==
  /\ relPc = "done"
  /\ relAB = "true"
  /\ relBA = "true"
  /\ ~isBranchRelated(relA.head.ref, relB.head.ref, relCfg)
  /\ areLabelsRelated(relA, relB, relCfg, relGh) = "false"
  /\ ~areTitlesRelated(relA.title, relB.title, relCfg)
  /\ relGh.files[1] # relGh.files[2]

(***************************************************************************)
(* PRScorer: the five sub-scores.  A score x is kept as x * SCALE, a       *)
(* weight w as 100 * w, a weighted score y as y * SCALE * 100.             *)
(***************************************************************************)
SCALE == 100 * 3 * 4
HUNDRED == 100 * SCALE

Criteria == {"codeQuality", "testing", "performance", "security", "documentation"}

\* value * (hundredths / 100), scaled
Part(value, hundredths) == value * hundredths * (SCALE \div 100)

\* a plausible slip: the score is returned as computed
Unclamped(totalScore) == totalScore

\* Math.max(0, Math.min(100, totalScore))
Clamp(totalScore) == Max(0, Min(HUNDRED, totalScore))

CodeQualityFallback == 50
TestingFallback == 60
PerformanceFallback == 70
SecurityFallback == 80
DocumentationFallback == 60

\* a plausible slip: one neutral fallback for every criterion
FallbackNeutral(c) == 50 * SCALE

\* the totalScore assigned in the catch block of each sub-score
Fallback(c) ==
  CASE c = "codeQuality" -> CodeQualityFallback * SCALE
    [] c = "testing" -> TestingFallback * SCALE
    [] c = "performance" -> PerformanceFallback * SCALE
    [] c = "security" -> SecurityFallback * SCALE
    [] c = "documentation" -> DocumentationFallback * SCALE

\* scoreCodeQuality, lines 77-82
CodeQualityTotal(metrics) ==
  Part(100 - Min(metrics.complexity * 5, 50), 25)
    + Part(metrics.standards, 30)
    + Part(100 - Min(metrics.duplication * 10, 50), 20)
    + Part(metrics.maintainability, 25)

\* a plausible slip: the number of test files is not capped at 30
TestingTotalUncapped(metrics) ==
  LET coverageScore4 == Min(metrics.coverage * 5, 400)
      testFileScore == metrics.testFiles * 20
      passingScore == IF metrics.testsPassing THEN 40 ELSE 0
      edgeCaseScore == Min(metrics.edgeCases * 10, 30)
  IN coverageScore4 * 40 * (SCALE \div 400)
       + Part(testFileScore, 20) + Part(passingScore, 30) + Part(edgeCaseScore, 10)

\* scoreTesting, lines 122-127; coverage * 1.25 is kept as its fourfold
TestingTotal(metrics) ==
  LET coverageScore4 == Min(metrics.coverage * 5, 400)
      testFileScore == Min(metrics.testFiles * 20, 30)
      passingScore == IF metrics.testsPassing THEN 40 ELSE 0
      edgeCaseScore == Min(metrics.edgeCases * 10, 30)
  IN coverageScore4 * 40 * (SCALE \div 400)
       + Part(testFileScore, 20) + Part(passingScore, 30) + Part(edgeCaseScore, 10)

LoadTimeScore == 85
MemoryUsageScore == 75

\* scorePerformance, lines 161-169
PerformanceTotal(metrics) ==
  Part(LoadTimeScore, 30) + Part(MemoryUsageScore, 25)
    + Part(metrics.benchmarks, 25) + Part(metrics.optimizations, 20)

\* scoreSecurity, lines 208-213
SecurityTotal(metrics) ==
  Part(100 - metrics.vulnerabilities * 25, 40)
    + Part(metrics.bestPractices, 30)
    + Part(metrics.inputValidation, 20)
    + Part(metrics.errorHandling, 10)

\* scoreDocumentation, lines 252-254
DocumentationTotal(metrics) ==
  (metrics.codeComments + metrics.readmeUpdates + metrics.apiDocs) * (SCALE \div 3)

\* what the analyses and the pluggable metrics can report
CodeQualityMetrics ==
  {[complexity |-> 0, standards |-> 100, duplication |-> 0, maintainability |-> 100],
   [complexity |-> 4, standards |-> 80, duplication |-> 2, maintainability |-> 70],
   [complexity |-> 20, standards |-> 0, duplication |-> 10, maintainability |-> 0]}
TestingMetrics ==
  {[coverage |-> c, testFiles |-> t, testsPassing |-> p, edgeCases |-> 2 * t] :
     c \in {0, 100}, t \in {0, 2}, p \in BOOLEAN}
PerformanceMetrics ==
  {[benchmarks |-> b, optimizations |-> o] : b \in {0, 100}, o \in {0, 100}}
SecurityMetrics ==
  {[vulnerabilities |-> v, bestPractices |-> b, inputValidation |-> k, errorHandling |-> k] :
     v \in {0, MaxVuln}, b \in {0, 100}, k \in {0, 100}}
DocumentationMetrics ==
  {[codeComments |-> c, readmeUpdates |-> r, apiDocs |-> a] :
     c \in {0, 100}, r \in {20, 80}, a \in {40, 80}}

(***************************************************************************)
(* PRScorer: weighted score, thresholds, default report                    *)
(***************************************************************************)
\* a plausible slip: the weights are left out of the sum
calculateUnweightedScore(sc, weights) ==
  (sc.codeQuality + sc.testing + sc.performance + sc.security + sc.documentation) * 100

calculateWeightedScore(sc, weights) ==
  sc.codeQuality * weights.codeQuality
    + sc.testing * weights.testing
    + sc.performance * weights.performance
    + sc.security * weights.security
    + sc.documentation * weights.documentation

\* a plausible slip: auto-merge is granted at the minimum score
checkThresholdsAtMinimum(sc, weightedScore, thresholds) ==
  [overall |-> weightedScore >= thresholds.minimumScore * HUNDRED,
   codeQuality |-> sc.codeQuality >= thresholds.codeQualityMin * SCALE,
   testing |-> sc.testing >= thresholds.testingMin * SCALE,
   performance |-> sc.performance >= thresholds.performanceMin * SCALE,
   security |-> sc.security >= thresholds.securityMin * SCALE,
   documentation |-> sc.documentation >= thresholds.documentationMin * SCALE,
   autoMergeEligible |-> weightedScore >= thresholds.minimumScore * HUNDRED]

checkThresholds(sc, weightedScore, thresholds) ==
  [overall |-> weightedScore >= thresholds.minimumScore * HUNDRED,
   codeQuality |-> sc.codeQuality >= thresholds.codeQualityMin * SCALE,
   testing |-> sc.testing >= thresholds.testingMin * SCALE,
   performance |-> sc.performance >= thresholds.performanceMin * SCALE,
   security |-> sc.security >= thresholds.securityMin * SCALE,
   documentation |-> sc.documentation >= thresholds.documentationMin * SCALE,
   autoMergeEligible |-> weightedScore >= thresholds.autoMergeScore * HUNDRED]

DefaultSubScore == 50
DefaultWeightedScore == 50

\* pr.user.login can be read
HasUser(p) == "user" \in DOMAIN p

\* getDefaultScore(pr); it reads pr.user.login
getDefaultScore(p) ==
  [kind |-> "default",
   scores |-> [c \in Criteria |-> DefaultSubScore * SCALE],
   weightedScore |-> DefaultWeightedScore * HUNDRED,
   meetsThresholds |->
     [overall |-> FALSE, codeQuality |-> FALSE, testing |-> FALSE,
      performance |-> FALSE, security |-> FALSE, documentation |-> FALSE,
      autoMergeEligible |-> FALSE]]

\* the object returned at lines 29-41; it reads pr.user.login
CompleteReport(sc, cfg) ==
  LET weightedScore == calculateWeightedScore(sc, cfg.weights)
  IN [kind |-> "complete",
      scores |-> sc,
      weightedScore |-> weightedScore,
      meetsThresholds |-> checkThresholds(sc, weightedScore, cfg.thresholds)]

NoReport == [kind |-> "none"]
NoScore == 0 - 1

DefaultThresholds ==
  [minimumScore |-> 70, autoMergeScore |-> 90, codeQualityMin |-> 60,
   testingMin |-> 70, performanceMin |-> 50, securityMin |-> 80,
   documentationMin |-> 40]

DefaultWeights ==
  [codeQuality |-> 30, testing |-> 25, performance |-> 20,
   security |-> 15, documentation |-> 10]

DefaultScoring == [weights |-> DefaultWeights, thresholds |-> DefaultThresholds]

(***************************************************************************)
(* scorePR as a state machine: one action per awaited sub-score, in the    *)
(* order of lines 20-24, then the construction of the returned object.     *)
(* An error that reaches the catch block of scorePR is answered by         *)
(* getDefaultScore(pr), which itself reads pr.user.login.                  *)
(***************************************************************************)
\* a group emitted for pull request 4: the anchor as listed, and the
\* related pull request 2 as detectRelatedPRs rebuilt it
EmittedGroup == AnchorGroup(PullRequest(4), <<4, 2>>, NoOutage)
ScoreArgs == Range(EmittedGroup.prs)

EvenWeights ==
  [codeQuality |-> 20, testing |-> 20, performance |-> 20,
   security |-> 20, documentation |-> 20]
ScoreConfigs == {DefaultScoring, [weights |-> EvenWeights, thresholds |-> DefaultThresholds]}

ScoreInit ==
  /\ pr \in ScoreArgs
  /\ config \in ScoreConfigs
  /\ pc = "codeQuality"
  /\ scores = [c \in Criteria |-> NoScore]
  /\ failed = {}
  /\ report = NoReport
  /\ GrpIdle
  /\ RelIdle
  /\ ExtIdle

\* lines 42-44: where scorePR ends after an error reached its catch block
CaughtPc(p) == IF HasUser(p) THEN "returned" ELSE "unhandled"
CaughtReport(p) == IF HasUser(p) THEN getDefaultScore(p) ELSE NoReport

\* line 53: getPRFiles raises before the try block of scoreCodeQuality
CodeQualityFilesFail ==
  /\ pc = "codeQuality"
  /\ failed' = failed \cup {"codeQuality"}
  /\ pc' = CaughtPc(pr)
  /\ report' = CaughtReport(pr)
  /\ UNCHANGED <<pr, config, scores>>
  /\ UNCHANGED <<grpVars, relVars, extVars>>

\* lines 63-82, 89-93
CodeQualityComputed ==
  /\ pc = "codeQuality"
  /\ \E metrics \in CodeQualityMetrics :
       scores' = [scores EXCEPT !.codeQuality = Clamp(CodeQualityTotal(metrics))]
  /\ pc' = "testing"
  /\ UNCHANGED <<pr, config, failed, report>>
  /\ UNCHANGED <<grpVars, relVars, extVars>>

\* lines 84-87: an analysis raises inside the try block
CodeQualityFails ==
  /\ pc = "codeQuality"
  /\ scores' = [scores EXCEPT !.codeQuality = Clamp(Fallback("codeQuality"))]
  /\ failed' = failed \cup {"codeQuality"}
  /\ pc' = "testing"
  /\ UNCHANGED <<pr, config, report>>
  /\ UNCHANGED <<grpVars, relVars, extVars>>

\* lines 108-127, 134-138
TestingComputed ==
  /\ pc = "testing"
  /\ \E metrics \in TestingMetrics :
       scores' = [scores EXCEPT !.testing = Clamp(TestingTotal(metrics))]
  /\ pc' = "performance"
  /\ UNCHANGED <<pr, config, failed, report>>
  /\ UNCHANGED <<grpVars, relVars, extVars>>

\* lines 129-132: countTestFiles cannot list the files
TestingFails ==
  /\ pc = "testing"
  /\ scores' = [scores EXCEPT !.testing = Clamp(Fallback("testing"))]
  /\ failed' = failed \cup {"testing"}
  /\ pc' = "performance"
  /\ UNCHANGED <<pr, config, report>>
  /\ UNCHANGED <<grpVars, relVars, extVars>>

\* lines 153-169, 176-180
PerformanceComputed ==
  /\ pc = "performance"
  /\ \E metrics \in PerformanceMetrics :
       scores' = [scores EXCEPT !.performance = Clamp(PerformanceTotal(metrics))]
  /\ pc' = "security"
  /\ UNCHANGED <<pr, config, failed, report>>
  /\ UNCHANGED <<grpVars, relVars, extVars>>

\* lines 171-174: detectOptimizations cannot list the files
PerformanceFails ==
  /\ pc = "performance"
  /\ scores' = [scores EXCEPT !.performance = Clamp(Fallback("performance"))]
  /\ failed' = failed \cup {"performance"}
  /\ pc' = "security"
  /\ UNCHANGED <<pr, config, report>>
  /\ UNCHANGED <<grpVars, relVars, extVars>>

\* lines 195-213, 220-224
SecurityComputed ==
  /\ pc = "security"
  /\ \E metrics \in SecurityMetrics :
       scores' = [scores EXCEPT !.security = Clamp(SecurityTotal(metrics))]
  /\ pc' = "documentation"
  /\ UNCHANGED <<pr, config, failed, report>>
  /\ UNCHANGED <<grpVars, relVars, extVars>>

\* lines 215-218: analyzeInputValidation cannot list the files
SecurityFails ==
  /\ pc = "security"
  /\ scores' = [scores EXCEPT !.security = Clamp(Fallback("security"))]
  /\ failed' = failed \cup {"security"}
  /\ pc' = "documentation"
  /\ UNCHANGED <<pr, config, report>>
  /\ UNCHANGED <<grpVars, relVars, extVars>>

\* lines 239-254, 261-265
DocumentationComputed ==
  /\ pc = "documentation"
  /\ \E metrics \in DocumentationMetrics :
       scores' = [scores EXCEPT !.documentation = Clamp(DocumentationTotal(metrics))]
  /\ pc' = "assemble"
  /\ UNCHANGED <<pr, config, failed, report>>
  /\ UNCHANGED <<grpVars, relVars, extVars>>

\* lines 256-259: getPRFiles raises inside the try block
DocumentationFails ==
  /\ pc = "documentation"
  /\ scores' = [scores EXCEPT !.documentation = Clamp(Fallback("documentation"))]
  /\ failed' = failed \cup {"documentation"}
  /\ pc' = "assemble"
  /\ UNCHANGED <<pr, config, report>>
  /\ UNCHANGED <<grpVars, relVars, extVars>>

\* lines 27-41: the weighted score, then the returned object
Assemble ==
  /\ pc = "assemble"
  /\ pc' = IF HasUser(pr) THEN "returned" ELSE CaughtPc(pr)
  /\ report' = IF HasUser(pr) THEN CompleteReport(scores, config) ELSE CaughtReport(pr)
  /\ UNCHANGED <<pr, config, scores, failed>>
  /\ UNCHANGED <<grpVars, relVars, extVars>>

ScoreNext ==
  \/ CodeQualityFilesFail
  \/ CodeQualityComputed \/ CodeQualityFails
  \/ TestingComputed \/ TestingFails
  \/ PerformanceComputed \/ PerformanceFails
  \/ SecurityComputed \/ SecurityFails
  \/ DocumentationComputed \/ DocumentationFails
  \/ Assemble

SpecScore == ScoreInit /\ [][ScoreNext]_vars

(***************************************************************************)
(* calculateWeightedScore and getDefaultScore on sub-scores and weights    *)
(* drawn from small sets                                                   *)
(***************************************************************************)
WeightShares == {0, 25, 50, 75, 100}
\* weights that are non-negative and sum to 1.0
WeightVectors ==
  {DefaultWeights, EvenWeights}
    \cup {w \in [Criteria -> WeightShares] :
            w.codeQuality + w.testing + w.performance + w.security + w.documentation = 100}
SubScoreSamples == {0, HUNDRED \div 3, HUNDRED}

WeighInit ==
  /\ pr = PullRequest(1)
  /\ \E w \in WeightVectors : config = [weights |-> w, thresholds |-> DefaultThresholds]
  /\ scores \in [Criteria -> SubScoreSamples]
  /\ pc = "weigh"
  /\ failed = {}
  /\ report = NoReport
  /\ GrpIdle
  /\ RelIdle
  /\ ExtIdle

\* line 27
WeighScores ==
  /\ pc = "weigh"
  /\ report' = [kind |-> "weighted",
                weightedScore |-> calculateWeightedScore(scores, config.weights)]
  /\ pc' = "weighed"
  /\ UNCHANGED <<pr, config, scores, failed>>
  /\ UNCHANGED <<grpVars, relVars, extVars>>

\* lines 42-44
DefaultAfterFailure ==
  /\ pc = "weigh"
  /\ report' = getDefaultScore(pr)
  /\ pc' = "defaulted"
  /\ UNCHANGED <<pr, config, scores, failed>>
  /\ UNCHANGED <<grpVars, relVars, extVars>>

WeighNext == WeighScores \/ DefaultAfterFailure

SpecWeigh == WeighInit /\ [][WeighNext]_vars

C7_SubScoresInRange ==
  report.kind \in {"complete", "default"}
    => \A c \in Criteria : report.scores[c] >= 0 /\ report.scores[c] <= HUNDRED

\* a complete report whose security total was negative and whose
\* code-quality total was 100
C7_Witness ==
  /\ pc = "returned"
  /\ report.kind = "complete"
  /\ failed = {}
  /\ report.scores.security = 0
  /\ report.scores.codeQuality = HUNDRED

\* C8 as stated: a sub-score whose computation failed is 50 in the
\* returned report, for each of the five criteria.
C8_FailedIsFifty ==
  pc = "returned" => \A c \in failed : report.scores[c] = 50 * SCALE

\* C8 as amended: a sub-score whose computation failed is, in the returned
\* report, 50 for code quality, 60 for testing, 70 for performance, 80 for
\* security and 60 for documentation, and 50 when the report is the
\* default report.
C8_FailedIsFallback ==
  pc = "returned"
    => \A c \in failed :
         report.scores[c] =
           IF report.kind = "default" THEN 50 * SCALE
           ELSE CASE c = "codeQuality" -> 50 * SCALE
                  [] c = "testing" -> 60 * SCALE
                  [] c = "performance" -> 70 * SCALE
                  [] c = "security" -> 80 * SCALE
                  [] c = "documentation" -> 60 * SCALE

\* a complete report after the security analysis alone failed
C8_Witness ==
  /\ pc = "returned"
  /\ report.kind = "complete"
  /\ failed = {"security"}
  /\ report.scores.security = 80 * SCALE

\* C9: when the computation of exactly one criterion fails, the report is
\* complete and its other four sub-scores are the computed ones.
C9_OthersStillComputed ==
  (pc = "returned" /\ Cardinality(failed) = 1)
    => /\ report.kind = "complete"
       /\ \A d \in Criteria \ failed :
            scores[d] # NoScore /\ report.scores[d] = scores[d]

\* C10: scorePR never ends in an unhandled failure.
C10_NeverUnhandled == pc # "unhandled"

\* C11: in every report returned by scorePR, the default report included,
\* each verdict is the comparison of its score with the configured minimum:
\* a criterion's verdict is true iff its sub-score >= its minimum, overall
\* iff weightedScore >= minimumScore, autoMergeEligible iff weightedScore >=
\* autoMergeScore.
C11_VerdictsAreComparisons ==
  report.kind \in {"complete", "default"}
    => LET t == config.thresholds
           v == report.meetsThresholds
       IN /\ v.overall <=> (report.weightedScore >= t.minimumScore * HUNDRED)
          /\ v.codeQuality <=> (report.scores.codeQuality >= t.codeQualityMin * SCALE)
          /\ v.testing <=> (report.scores.testing >= t.testingMin * SCALE)
          /\ v.performance <=> (report.scores.performance >= t.performanceMin * SCALE)
          /\ v.security <=> (report.scores.security >= t.securityMin * SCALE)
          /\ v.documentation <=> (report.scores.documentation >= t.documentationMin * SCALE)
          /\ v.autoMergeEligible <=> (report.weightedScore >= t.autoMergeScore * HUNDRED)

(***************************************************************************)
(* scorePR called twice on the same proposal, the hosting collaborator     *)
(* answering the same both times.  One action is one whole call; the       *)
(* values that the code draws from Math.random are chosen anew in each     *)
(* call.                                                                   *)
(***************************************************************************)
\* what the collaborator's file listing determines: the four analyses of
\* the code analyzer, the number of test files, the vocabulary scores and
\* the documentation metrics
Answers ==
  {[codeQuality |-> q, testFiles |-> t, optimizations |-> 20 * t,
    inputValidation |-> 40, errorHandling |-> 15 * t,
    documentation |-> [codeComments |-> 0, readmeUpdates |-> 20, apiDocs |-> 40]] :
     q \in {m \in CodeQualityMetrics : m.complexity <= 4}, t \in {0, 2}}

\* Math.random() * 40 + 60 (analyzeTestCoverage), Math.random() > 0.1
\* (checkTestStatus), Math.floor(Math.random() * 5) (analyzeEdgeCaseCoverage),
\* Math.random() * 30 + 70 (analyzePerformanceBenchmarks and
\* analyzeSecurityPractices), Math.floor(Math.random() * 3)
\* (scanSecurityVulnerabilities)
RandomDraws ==
  [coverage : {60, 80}, testsPassing : BOOLEAN, edgeCases : {0, 4},
   benchmarks : {70, 85}, vulnerabilities : 0..2, bestPractices : {70, 85}]

\* the five sub-scores of one call, lines 20-24
ScoresOfCall(ans, rnd) ==
  [codeQuality |-> Clamp(CodeQualityTotal(ans.codeQuality)),
   testing |-> Clamp(TestingTotal([coverage |-> rnd.coverage,
                                   testFiles |-> ans.testFiles,
                                   testsPassing |-> rnd.testsPassing,
                                   edgeCases |-> rnd.edgeCases])),
   performance |-> Clamp(PerformanceTotal([benchmarks |-> rnd.benchmarks,
                                           optimizations |-> ans.optimizations])),
   security |-> Clamp(SecurityTotal([vulnerabilities |-> rnd.vulnerabilities,
                                     bestPractices |-> rnd.bestPractices,
                                     inputValidation |-> ans.inputValidation,
                                     errorHandling |-> ans.errorHandling])),
   documentation |-> Clamp(DocumentationTotal(ans.documentation))]

RescoreInit ==
  /\ pr \in {PullRequest(n) : n \in {1, 2}}
  /\ config = DefaultScoring
  /\ answers \in Answers
  /\ pc = "first"
  /\ scores = [c \in Criteria |-> NoScore]
  /\ failed = {}
  /\ report = NoReport
  /\ report1 = NoReport
  /\ GrpIdle
  /\ RelIdle
  /\ WinIdle /\ AnaIdle /\ QuaIdle /\ SnipIdle /\ CallIdle

\* the first call of scorePR(pr), lines 17-41
ScoreFirst ==
  /\ pc = "first"
  /\ \E rnd \in RandomDraws :
       /\ scores' = ScoresOfCall(answers, rnd)
       /\ report1' = CompleteReport(scores', config)
  /\ pc' = "second"
  /\ UNCHANGED <<pr, config, failed, report, answers>>
  /\ UNCHANGED <<grpVars, relVars, winVars, anaVars, quaVars, snipVars, callVars>>

\* the second call of scorePR(pr), lines 17-41
ScoreSecond ==
  /\ pc = "second"
  /\ \E rnd \in RandomDraws :
       /\ scores' = ScoresOfCall(answers, rnd)
       /\ report' = CompleteReport(scores', config)
  /\ pc' = "rescored"
  /\ UNCHANGED <<pr, config, failed, answers, report1>>
  /\ UNCHANGED <<grpVars, relVars, winVars, anaVars, quaVars, snipVars, callVars>>

RescoreNext == ScoreFirst \/ ScoreSecond

SpecRescore == RescoreInit /\ [][RescoreNext]_vars

\* C12: two calls of scorePR on the same proposal with the same
\* configuration and the same collaborator answers return the same five
\* sub-scores, the same weighted score and the same verdicts.
C12_Reproducible == pc = "rescored" => report = report1

(***************************************************************************)
(* Selection of the winner of a feature group.  The step that selects the  *)
(* winner belongs to the evaluator workflow (ai-pr-evaluator.yml), which   *)
(* is not among the scripts; it is modelled from its description: the      *)
(* members are scored independently, in any order, and the winner is       *)
(* declared once every member has its report.                              *)
(***************************************************************************)
MaxMembers == 3      \* largest feature group

\* the weighted scores and creation timestamps the members can have
WinnerScores == {70, 80}
WinnerTimes == {1, 2}

\* a ranks before b: higher weightedScore, then earlier created_at, then
\* lower number
RanksBefore(a, b, score) ==
  \/ score[a.number] > score[b.number]
  \/ /\ score[a.number] = score[b.number]
     /\ a.created_at < b.created_at
  \/ /\ score[a.number] = score[b.number]
     /\ a.created_at = b.created_at
     /\ a.number < b.number

\* a plausible slip: the first tie-break prefers the latest proposal
selectWinnerLatest(group, score) ==
  LET Before(a, b) ==
        \/ score[a.number] > score[b.number]
        \/ score[a.number] = score[b.number] /\ a.created_at > b.created_at
        \/ /\ score[a.number] = score[b.number]
           /\ a.created_at = b.created_at
           /\ a.number < b.number
  IN (CHOOSE m \in group : \A o \in group \ {m} : Before(m, o)).number

selectWinner(group, score) ==
  (CHOOSE m \in group : \A o \in group \ {m} : RanksBefore(m, o, score)).number

AllScored == \A m \in members : memberScore[m.number] # NoScore

WinnerInit ==
  /\ \E ns \in SUBSET (1..MaxMembers) :
       /\ Cardinality(ns) >= 2
       /\ \E t \in [ns -> WinnerTimes] :
            members = {[number |-> n, created_at |-> t[n]] : n \in ns}
       /\ memberScore = [n \in ns |-> NoScore]
  /\ winner = 0
  /\ wpc = "scoring"
  /\ GrpIdle /\ RelIdle /\ ScoIdle
  /\ ResIdle /\ AnaIdle /\ QuaIdle /\ SnipIdle /\ CallIdle

\* the report of one member completes
MemberScored ==
  /\ wpc = "scoring"
  /\ \E m \in members, ws \in WinnerScores :
       /\ memberScore[m.number] = NoScore
       /\ memberScore' = [memberScore EXCEPT ![m.number] = ws]
  /\ UNCHANGED <<members, winner, wpc>>
  /\ UNCHANGED <<grpVars, relVars, scoVars, rescVars, anaVars, quaVars, snipVars, callVars>>

\* the join: every member has its report, the winner is declared
DeclareWinner ==
  /\ wpc = "scoring"
  /\ AllScored
  /\ winner' = selectWinner(members, memberScore)
  /\ wpc' = "declared"
  /\ UNCHANGED <<members, memberScore>>
  /\ UNCHANGED <<grpVars, relVars, scoVars, rescVars, anaVars, quaVars, snipVars, callVars>>

WinnerNext == MemberScored \/ DeclareWinner

SpecWinner == WinnerInit /\ [][WinnerNext]_vars

\* C13: the declared winner is the member with the highest weightedScore,
\* ties broken by the earliest creation timestamp and then by the lowest
\* identifier (so equal reports, timestamps and identifiers give the same
\* winner), and a winner is declared only when every member has its report.
C13_WinnerIsBest ==
  winner # 0
    => /\ AllScored
       /\ \E w \in members :
            /\ w.number = winner
            /\ \A m \in members \ {w} :
                 \/ memberScore[w.number] > memberScore[m.number]
                 \/ /\ memberScore[w.number] = memberScore[m.number]
                    /\ w.created_at < m.created_at
                 \/ /\ memberScore[w.number] = memberScore[m.number]
                    /\ w.created_at = m.created_at
                    /\ w.number < m.number

\* a winner decided by the creation timestamp among three members with the
\* same weighted score, the earliest not being the lowest identifier
C13_Witness ==
  /\ wpc = "declared"
  /\ Cardinality(members) = 3
  /\ \A m \in members : memberScore[m.number] = 80
  /\ winner = 3
  /\ \E m \in members : m.number = 3 /\ m.created_at = 1
  /\ \A m \in members : m.number # 3 => m.created_at = 2

(***************************************************************************)
(* Texts: characters, lines and the regular-expression classes the         *)
(* analyzer and the extractor use                                          *)
(***************************************************************************)
LowerLetters ==
  {"a","b","c","d","e","f","g","h","i","j","k","l","m",
   "n","o","p","q","r","s","t","u","v","w","x","y","z"}
UpperLetters ==
  {"A","B","C","D","E","F","G","H","I","J","K","L","M",
   "N","O","P","Q","R","S","T","U","V","W","X","Y","Z"}
Digits == {"0","1","2","3","4","5","6","7","8","9"}
\* \w and \s
WordChars == LowerLetters \cup UpperLetters \cup Digits \cup {"_"}
SpaceChars == {" ", "\t", "\n"}

\* \b at the gap before position p of s (p = Len(s) + 1: after the end)
BoundaryAt(s, p) ==
  LET before == p > 1 /\ p - 1 <= Len(s) /\ s[p - 1] \in WordChars
      after == p >= 1 /\ p <= Len(s) /\ s[p] \in WordChars
  IN before # after

StartsWith(s, prefix) == OccursAt(s, prefix, 1)
EndsWith(s, suffix) == OccursAt(s, suffix, Len(s) - Len(suffix) + 1)

\* String.prototype.trim
Trim(s) ==
  LET solid == {p \in 1..Len(s) : s[p] \notin SpaceChars}
  IN IF solid = {} THEN <<>>
     ELSE SubSeq(s, CHOOSE p \in solid : \A q \in solid : p <= q,
                    CHOOSE p \in solid : \A q \in solid : q <= p)

\* the number of leading white-space characters, line.match(/^(\s*)/)[1].length
LeadingSpaces(s) ==
  Cardinality({p \in 1..Len(s) : \A q \in 1..p : s[q] \in SpaceChars})

\* the number of (non-overlapping) occurrences of a needle that cannot
\* overlap itself
CountOf(hay, needle) ==
  Cardinality({p \in 1..Len(hay) : OccursAt(hay, needle, p)})

RECURSIVE SumSeq(_)
SumSeq(s) == IF s = <<>> THEN 0 ELSE Head(s) + SumSeq(Tail(s))

RECURSIVE JoinLines(_)
\* Array.prototype.join('\n')
JoinLines(ls) ==
  IF ls = <<>> THEN <<>>
  ELSE IF Len(ls) = 1 THEN ls[1]
  ELSE ls[1] \o <<"\n">> \o JoinLines(Tail(ls))

\* the result of an operation: a value, or a raised error
Value(v) == [kind |-> "value", error |-> "", value |-> v]
Raised(e) == [kind |-> "raised", error |-> e, value |-> 0]

FracAdd(a, b) == Frac(a.num * b.den + b.num * a.den, a.den * b.den)
FracEq(a, b) == a.num * b.den = b.num * a.den

(***************************************************************************)
(* CodeAnalyzer (code-analyzer.js).  A file is what pulls.listFiles        *)
(* returns for it: filename, status and, unless the hosting service left   *)
(* it out, patch; a patch is kept as the list of its lines.                *)
(***************************************************************************)
NoPatch == [present |-> FALSE, lines |-> <<>>]
Patch(lines) == [present |-> TRUE, lines |-> lines]
\* `file.patch` as a condition: undefined and '' are falsy
HasPatch(file) == file.patch.present /\ file.patch.lines # << <<>> >>

codeExtensions ==
  <<<<".","j","s">>,
    <<".","t","s">>,
    <<".","j","s","x">>,
    <<".","t","s","x">>,
    <<".","p","y">>,
    <<".","j","a","v","a">>,
    <<".","c","p","p">>,
    <<".","c">>,
    <<".","c","s">>,
    <<".","p","h","p">>,
    <<".","r","b">>,
    <<".","g","o">>,
    <<".","r","s">>>>

isCodeFile(filename) ==
  \E i \in 1..Len(codeExtensions) : EndsWith(filename, codeExtensions[i])

isTestFile(filename) ==
  \/ Includes(filename, <<"t","e","s","t">>)
  \/ Includes(filename, <<"s","p","e","c">>)
  \/ EndsWith(filename, <<".","t","e","s","t",".","j","s">>)
  \/ EndsWith(filename, <<".","s","p","e","c",".","j","s">>)
  \/ EndsWith(filename, <<".","t","e","s","t",".","t","s">>)
  \/ EndsWith(filename, <<".","s","p","e","c",".","t","s">>)

\* lines.filter(line => line.startsWith('+')).map(line => line.substring(1))
AddedLines(lines) ==
  LET plus == SelectSeq(lines, LAMBDA l : StartsWith(l, <<"+">>))
  IN [i \in 1..Len(plus) |-> SubSeq(plus[i], 2, Len(plus[i]))]

complexityKeywords ==
  <<<<"i","f">>, <<"e","l","s","e">>, <<"e","l","i","f">>, <<"e","l","s","i","f">>,
    <<"s","w","i","t","c","h">>, <<"c","a","s","e">>, <<"d","e","f","a","u","l","t">>,
    <<"f","o","r">>, <<"w","h","i","l","e">>, <<"d","o">>, <<"f","o","r","e","a","c","h">>, <<"l","o","o","p">>,
    <<"t","r","y">>, <<"c","a","t","c","h">>, <<"e","x","c","e","p","t">>, <<"f","i","n","a","l","l","y">>,
    <<"a","n","d">>, <<"o","r">>, <<"&","&">>, <<"|","|">>, <<"?">>, <<":">>,
    <<"b","r","e","a","k">>, <<"c","o","n","t","i","n","u","e">>, <<"r","e","t","u","r","n">>, <<"t","h","r","o","w">>, <<"r","a","i","s","e">>>>

\* new RegExp(`\\b${keyword}\\b`, 'g') is a valid pattern for every keyword
\* but '?': in \b?\b the quantifier ? follows the assertion \b, which is
\* not quantifiable, and the constructor raises a SyntaxError
RegExpCompiles(keyword) == keyword # <<"?">>

\* cleanLine.match(regex).length, 0 for null.  The pattern \b||\b has an
\* empty alternative and matches once at every position of the line.
KeywordMatches(cleanLine, keyword) ==
  IF keyword = <<"|","|">> THEN Len(cleanLine) + 1
  ELSE Cardinality({p \in 1..Len(cleanLine) :
                      /\ OccursAt(cleanLine, keyword, p)
                      /\ BoundaryAt(cleanLine, p)
                      /\ BoundaryAt(cleanLine, p + Len(keyword))})

\* the regular expression of every keyword is built for every added line,
\* so the first added line already meets the keyword that does not compile
calculateCyclomaticComplexity(lines) ==
  LET added == SelectSeq(lines, LAMBDA l : StartsWith(l, <<"+">>))
      clean == [i \in 1..Len(added) |->
                  ToLower(Trim(SubSeq(added[i], 2, Len(added[i]))))]
  IN IF /\ added # <<>>
        /\ \E k \in 1..Len(complexityKeywords) : ~RegExpCompiles(complexityKeywords[k])
     THEN Raised("SyntaxError")
     ELSE Value(1 + SumSeq([i \in 1..Len(clean) |->
                  SumSeq([k \in 1..Len(complexityKeywords) |->
                            KeywordMatches(clean[i], complexityKeywords[k])])]))

\* the files an analysis looks at
Analysed(fs) == SelectSeq(fs, LAMBDA f : isCodeFile(f.filename) /\ HasPatch(f))

\* the loop `for (const file of files)` over per-file results: the first
\* raised error leaves the operation, else the results are summed
FirstRaised(results) ==
  LET bad == {i \in 1..Len(results) : results[i].kind = "raised"}
  IN results[CHOOSE i \in bad : \A j \in bad : i <= j]
AnyRaised(results) == \E i \in 1..Len(results) : results[i].kind = "raised"
TotalOf(results) == SumSeq([i \in 1..Len(results) |-> results[i].value])

analyzeComplexity(fs) ==
  LET each == [i \in 1..Len(Analysed(fs)) |->
                 calculateCyclomaticComplexity(Analysed(fs)[i].patch.lines)]
  IN IF AnyRaised(each) THEN FirstRaised(each)
     ELSE IF Len(each) > 0 THEN Value(Frac(TotalOf(each), Len(each)))
     ELSE Value(Frac(0, 1))

\* /\b[a-z]\s*[=:]/ : a lower-case letter that starts a word, white space,
\* then = or :
SingleLetterAssigned(t) ==
  \E p \in 1..Len(t), q \in 1..Len(t) :
    /\ t[p] \in LowerLetters
    /\ BoundaryAt(t, p)
    /\ q > p
    /\ \A r \in (p + 1)..(q - 1) : t[r] \in SpaceChars
    /\ t[q] \in {"=", ":"}

\* /(for|while).*[ijk]\s*[=<>]/
LoopIndexUsed(t) ==
  \E s \in 1..Len(t), w \in {<<"f","o","r">>, <<"w","h","i","l","e">>} :
    /\ OccursAt(t, w, s)
    /\ \E r \in (s + Len(w))..Len(t), q \in 1..Len(t) :
         /\ t[r] \in {"i", "j", "k"}
         /\ q > r
         /\ \A x \in (r + 1)..(q - 1) : t[x] \in SpaceChars
         /\ t[q] \in {"=", "<", ">"}

\* the camelCase test `name.includes('_') && !name.toUpperCase() === name`
\* compares a boolean with a string and is never true, so only the
\* single-character test counts violations
checkNamingConventions(lines, filename) ==
  Min(Cardinality({i \in 1..Len(lines) :
                     /\ SingleLetterAssigned(Trim(lines[i]))
                     /\ ~LoopIndexUsed(Trim(lines[i]))}), 10)

checkIndentation(lines) ==
  LET indented == SelectSeq(lines, LAMBDA l : Len(Trim(l)) # 0 /\ LeadingSpaces(l) > 0)
      expectedIndent == LeadingSpaces(indented[1])
  IN IF indented = <<>> THEN 0
     ELSE Min(Cardinality({i \in 2..Len(indented) :
                             LeadingSpaces(indented[i]) % expectedIndent # 0}), 20)

checkLineLength(lines) ==
  Min(Cardinality({i \in 1..Len(lines) : Len(lines[i]) > 120}), 10)

\* /\b\d{3,}\b/ : a word made of three or more digits
MagicNumber(t) ==
  \E s \in 1..Len(t), e \in 1..Len(t) :
    /\ e >= s + 2
    /\ \A p \in s..e : t[p] \in Digits
    /\ BoundaryAt(t, s)
    /\ BoundaryAt(t, e + 1)

checkCodeStructure(lines) ==
  LET Of(t) ==
        (IF CountOf(t, <<"?">>) > 1 THEN 1 ELSE 0)
          + (IF Includes(t, <<"i","f">>) /\ CountOf(t, <<"i","f">>) > 2 THEN 1 ELSE 0)
          + (IF MagicNumber(t) /\ ~Includes(t, <<"/","/">>) THEN 1 ELSE 0)
  IN Min(SumSeq([i \in 1..Len(lines) |-> Of(Trim(lines[i]))]), 15)

analyzeCodingStandards(file) ==
  LET addedLines == AddedLines(file.patch.lines)
  IN Max(0, 100 - checkNamingConventions(addedLines, file.filename) * 5
                - checkIndentation(addedLines) * 3
                - checkLineLength(addedLines) * 2
                - checkCodeStructure(addedLines) * 4)

checkCodingStandards(fs) ==
  LET each == [i \in 1..Len(Analysed(fs)) |-> analyzeCodingStandards(Analysed(fs)[i])]
  IN IF Len(each) > 0 THEN Value(Frac(SumSeq(each), Len(each)))
     ELSE Value(Frac(100, 1))

RECURSIVE BlocksFrom(_, _, _, _)
\* the for-loop of extractCodeBlocks from line i on
BlocksFrom(addedLines, i, currentBlock, blocks) ==
  LET closed == IF Len(currentBlock) >= 3
                THEN Append(blocks, JoinLines(currentBlock)) ELSE blocks
  IN IF i > Len(addedLines) THEN closed
     ELSE IF /\ Len(addedLines[i]) > 10
             /\ ~StartsWith(addedLines[i], <<"/","/">>)
             /\ ~StartsWith(addedLines[i], <<"/","*">>)
          THEN BlocksFrom(addedLines, i + 1, Append(currentBlock, addedLines[i]), blocks)
          ELSE BlocksFrom(addedLines, i + 1, <<>>, closed)

extractCodeBlocks(lines) ==
  LET added == AddedLines(lines)
  IN BlocksFrom([i \in 1..Len(added) |-> Trim(added[i])], 1, <<>>, <<>>)

\* the maximal runs of word characters of s, in order
WordRuns(s) ==
  LET starts == {p \in 1..Len(s) : s[p] \in WordChars /\ BoundaryAt(s, p)}
      EndOf(p) == CHOOSE e \in p..Len(s) :
                    /\ \A q \in p..e : s[q] \in WordChars
                    /\ BoundaryAt(s, e + 1)
      Nth(i) == CHOOSE p \in starts : Cardinality({q \in starts : q <= p}) = i
  IN [i \in 1..Cardinality(starts) |-> SubSeq(s, Nth(i), EndOf(Nth(i)))]

\* block.toLowerCase().split(/\W+/).filter(w => w.length > 2)
BlockWords(block) == SelectSeq(WordRuns(ToLower(block)), LAMBDA w : Len(w) > 2)

areSimilarBlocks(block1, block2) ==
  IF Len(block1) < 50 \/ Len(block2) < 50 THEN FALSE
  ELSE LET words1 == BlockWords(block1)
           words2 == BlockWords(block2)
           intersection == SelectSeq(words1, LAMBDA w : w \in Range(words2))
       IN Len(intersection) * 10 > 7 * Max(Len(words1), Len(words2))

RECURSIVE ConcatAll(_)
ConcatAll(lists) ==
  IF lists = <<>> THEN <<>> ELSE Head(lists) \o ConcatAll(Tail(lists))

detectDuplication(fs) ==
  LET codeBlocks == ConcatAll([i \in 1..Len(Analysed(fs)) |->
                                 extractCodeBlocks(Analysed(fs)[i].patch.lines)])
      duplications == Cardinality({ij \in (1..Len(codeBlocks)) \X (1..Len(codeBlocks)) :
                                     /\ ij[1] < ij[2]
                                     /\ areSimilarBlocks(codeBlocks[ij[1]], codeBlocks[ij[2]])})
  IN Value(Min(duplications, 10))

calculateFileMaintainability(file) ==
  LET addedLines == AddedLines(file.patch.lines)
      n == Len(addedLines)
      lengths == SumSeq([i \in 1..n |-> Len(addedLines[i])])
      complexity == calculateCyclomaticComplexity(file.patch.lines)
      comments == Cardinality({i \in 1..n :
                     \/ StartsWith(Trim(addedLines[i]), <<"/","/">>)
                     \/ StartsWith(Trim(addedLines[i]), <<"/","*">>)})
  IN IF n = 0 THEN Value(100)
     ELSE IF complexity.kind = "raised" THEN complexity
     ELSE Value(Max(0, 100 - (IF lengths > 80 * n THEN 10 ELSE 0)
                           - (IF complexity.value > 10 THEN (complexity.value - 10) * 3 ELSE 0)
                           - (IF comments * 10 < n THEN 15 ELSE 0)))

\* a plausible slip: an empty selection of files yields 0
calculateMaintainabilityOrZero(fs) ==
  LET each == [i \in 1..Len(Analysed(fs)) |-> calculateFileMaintainability(Analysed(fs)[i])]
  IN IF AnyRaised(each) THEN FirstRaised(each)
     ELSE IF Len(each) > 0 THEN Value(Frac(TotalOf(each), Len(each)))
     ELSE Value(Frac(0, 1))

calculateMaintainability(fs) ==
  LET each == [i \in 1..Len(Analysed(fs)) |-> calculateFileMaintainability(Analysed(fs)[i])]
  IN IF AnyRaised(each) THEN FirstRaised(each)
     ELSE IF Len(each) > 0 THEN Value(Frac(TotalOf(each), Len(each)))
     ELSE Value(Frac(100, 1))

testKeywords == <<<<"t","e","s","t">>, <<"i","t">>, <<"d","e","s","c","r","i","b","e">>, <<"e","x","p","e","c","t">>, <<"a","s","s","e","r","t">>, <<"s","h","o","u","l","d">>>>
assertionKeywords ==
  <<<<"e","x","p","e","c","t">>, <<"a","s","s","e","r","t">>, <<"s","h","o","u","l","d">>,
    <<"t","o","B","e">>, <<"t","o","E","q","u","a","l">>, <<"t","o","C","o","n","t","a","i","n">>>>

\* file.patch.split('\n') raises a TypeError when the file has no patch
analyzeTestFile(file) ==
  IF ~file.patch.present THEN Raised("TypeError")
  ELSE LET addedLines == AddedLines(file.patch.lines)
           lower == [i \in 1..Len(addedLines) |-> ToLower(Trim(addedLines[i]))]
           testCount == Cardinality({i \in 1..Len(lower) :
                          \E k \in 1..Len(testKeywords) :
                            Includes(lower[i], testKeywords[k] \o <<"(">>)})
           assertionCount == Cardinality({i \in 1..Len(lower) :
                               \E k \in 1..Len(assertionKeywords) :
                                 Includes(lower[i], assertionKeywords[k])})
           density200 == (testCount + assertionCount) * 200
       IN IF Len(addedLines) = 0 THEN Value(Frac(0, 1))
          ELSE IF density200 > 100 * Len(addedLines) THEN Value(Frac(100, 1))
          ELSE Value(Frac(density200, Len(addedLines)))

RECURSIVE FracSum(_)
FracSum(qs) == IF qs = <<>> THEN Frac(0, 1) ELSE FracAdd(Head(qs), FracSum(Tail(qs)))

\* the score of the returned record
analyzeTestQuality(fs) ==
  LET testFiles == SelectSeq(fs, LAMBDA f : isTestFile(f.filename))
      analyses == [i \in 1..Len(testFiles) |-> analyzeTestFile(testFiles[i])]
      totalScore == FracSum([i \in 1..Len(analyses) |-> analyses[i].value])
  IN IF Len(testFiles) = 0 THEN Value(Frac(0, 1))
     ELSE IF AnyRaised(analyses) THEN FirstRaised(analyses)
     ELSE Value(Frac(totalScore.num, totalScore.den * Len(testFiles)))

\* `metrics.x = await ...` keeps the quotient; the quotients met when no
\* analysis raises are whole numbers, every analysed file then having no
\* added line
Whole(q) == q.num \div q.den

\* scoreCodeQuality(pr) once getPRFiles has answered fs, lines 55-93: the
\* analyses run in this order inside the try block and the first raised
\* error is caught
scoreCodeQuality(fs) ==
  LET complexity == analyzeComplexity(fs)
      standards == checkCodingStandards(fs)
      duplication == detectDuplication(fs)
      maintainability == calculateMaintainability(fs)
      caught == \/ complexity.kind = "raised"
                \/ standards.kind = "raised"
                \/ duplication.kind = "raised"
                \/ maintainability.kind = "raised"
      metrics == [complexity |-> Whole(complexity.value),
                  standards |-> Whole(standards.value),
                  duplication |-> duplication.value,
                  maintainability |-> Whole(maintainability.value)]
  IN IF caught
     THEN [failed |-> TRUE, score |-> Clamp(Fallback("codeQuality"))]
     ELSE [failed |-> FALSE, score |-> Clamp(CodeQualityTotal(metrics))]

(***************************************************************************)
(* The public operations of the analyzer, and scoreCodeQuality, called on  *)
(* file lists made of these files                                          *)
(***************************************************************************)
MaxFiles == 2        \* longest file list

FilePool == {
  [filename |-> <<"a","p","p",".","j","s">>,
   status |-> "modified",
   patch |-> NoPatch],
  [filename |-> <<"a","u","t","h",".","t","e","s","t",".","j","s">>,
   status |-> "added",
   patch |-> Patch(<<<<"@","@"," ","-","0",",","0"," ","+","1",",","3"," ","@","@">>,
            <<"+","t","e","s","t","(","'","a","d","d","s","'",","," ","(",")"," ","=",">"," ","{">>,
            <<"+"," "," ","e","x","p","e","c","t","(","s","u","m","(","1",","," ","2",")",")",".","t","o","B","e","(","3",")",";">>,
            <<"+","}",")",";">>>>)],
  [filename |-> <<"l","o","g","i","n",".","s","p","e","c",".","j","s">>,
   status |-> "modified",
   patch |-> NoPatch],
  [filename |-> <<"R","E","A","D","M","E",".","m","d">>,
   status |-> "modified",
   patch |-> Patch(<<<<"@","@"," ","-","1"," ","+","1",",","2"," ","@","@">>,
            <<" ","#"," ","T","i","t","l","e">>,
            <<"+","M","o","r","e"," ","w","o","r","d","s">>>>)],
  [filename |-> <<"u","t","i","l",".","j","s">>,
   status |-> "modified",
   patch |-> Patch(<<<<"@","@"," ","-","1",",","2"," ","+","1"," ","@","@">>,
            <<"-","v","a","r"," ","a"," ","="," ","1",";">>,
            <<" ","k","e","e","p","(",")",";">>>>)],
  [filename |-> <<"m","a","i","n",".","j","s">>,
   status |-> "modified",
   patch |-> Patch(<<<<"@","@"," ","-","0",",","0"," ","+","1",",","2"," ","@","@">>,
            <<"+","i","f"," ","(","a",")"," ","{">>,
            <<"+"," "," ","x"," ","="," ","1","0","0","0",";">>>>)],
  [filename |-> <<"o","l","d",".","p","y">>,
   status |-> "modified",
   patch |-> Patch(<<<<"@","@"," ","-","3",",","2"," ","+","3"," ","@","@">>,
            <<" ","i","m","p","o","r","t"," ","o","s">>,
            <<"-","i","m","p","o","r","t"," ","s","y","s">>>>)],
  [filename |-> <<"d","u","p",".","j","s">>,
   status |-> "added",
   patch |-> Patch(<<<<"@","@"," ","-","0",",","0"," ","+","1",",","7"," ","@","@">>,
            <<"+","c","o","n","s","t"," ","t","o","t","a","l"," ","="," ","p","r","i","c","e"," ","+"," ","t","a","x",";">>,
            <<"+","c","o","n","s","t"," ","l","a","b","e","l"," ","="," ","f","o","r","m","a","t","(","t","o","t","a","l",")",";">>,
            <<"+","r","e","n","d","e","r","(","l","a","b","e","l",","," ","t","o","t","a","l",")",";">>,
            <<"+","}">>,
            <<"+","c","o","n","s","t"," ","t","o","t","a","l"," ","="," ","p","r","i","c","e"," ","+"," ","t","a","x",";">>,
            <<"+","c","o","n","s","t"," ","l","a","b","e","l"," ","="," ","f","o","r","m","a","t","(","t","o","t","a","l",")",";">>,
            <<"+","r","e","n","d","e","r","(","l","a","b","e","l",","," ","t","o","t","a","l",")",";">>>>)]
}

Pending == [kind |-> "pending", error |-> "", value |-> 0]
AnalyzerOps ==
  <<"analyzeComplexity", "checkCodingStandards", "detectDuplication",
    "calculateMaintainability", "analyzeTestQuality", "scoreCodeQuality", "done">>
NextOp(op) == AnalyzerOps[1 + CHOOSE i \in 1..Len(AnalyzerOps) : AnalyzerOps[i] = op]

AnalyzeInit ==
  /\ files \in ListsOf(FilePool, MaxFiles)
  /\ analysis = [op \in Range(AnalyzerOps) \ {"done"} |-> Pending]
  /\ apc = "analyzeComplexity"
  /\ GrpIdle /\ RelIdle /\ ScoIdle
  /\ ResIdle /\ WinIdle /\ QuaIdle /\ SnipIdle /\ CallIdle

\* lines 15-28
CallAnalyzeComplexity ==
  /\ apc = "analyzeComplexity"
  /\ analysis' = [analysis EXCEPT !["analyzeComplexity"] = analyzeComplexity(files)]
  /\ apc' = NextOp("analyzeComplexity")
  /\ UNCHANGED files
  /\ UNCHANGED <<grpVars, relVars, scoVars, rescVars, winVars, quaVars, snipVars, callVars>>

\* lines 67-80
CallCheckCodingStandards ==
  /\ apc = "checkCodingStandards"
  /\ analysis' = [analysis EXCEPT !["checkCodingStandards"] = checkCodingStandards(files)]
  /\ apc' = NextOp("checkCodingStandards")
  /\ UNCHANGED files
  /\ UNCHANGED <<grpVars, relVars, scoVars, rescVars, winVars, quaVars, snipVars, callVars>>

\* lines 205-227
CallDetectDuplication ==
  /\ apc = "detectDuplication"
  /\ analysis' = [analysis EXCEPT !["detectDuplication"] = detectDuplication(files)]
  /\ apc' = NextOp("detectDuplication")
  /\ UNCHANGED files
  /\ UNCHANGED <<grpVars, relVars, scoVars, rescVars, winVars, quaVars, snipVars, callVars>>

\* lines 274-287
CallCalculateMaintainability ==
  /\ apc = "calculateMaintainability"
  /\ analysis' = [analysis EXCEPT !["calculateMaintainability"] = calculateMaintainability(files)]
  /\ apc' = NextOp("calculateMaintainability")
  /\ UNCHANGED files
  /\ UNCHANGED <<grpVars, relVars, scoVars, rescVars, winVars, quaVars, snipVars, callVars>>

\* lines 321-342
CallAnalyzeTestQuality ==
  /\ apc = "analyzeTestQuality"
  /\ analysis' = [analysis EXCEPT !["analyzeTestQuality"] = analyzeTestQuality(files)]
  /\ apc' = NextOp("analyzeTestQuality")
  /\ UNCHANGED files
  /\ UNCHANGED <<grpVars, relVars, scoVars, rescVars, winVars, quaVars, snipVars, callVars>>

\* pr-scorer.js, scoreCodeQuality after getPRFiles has answered
CallScoreCodeQuality ==
  /\ apc = "scoreCodeQuality"
  /\ analysis' = [analysis EXCEPT !["scoreCodeQuality"] =
                    [kind |-> IF scoreCodeQuality(files).failed THEN "fallback" ELSE "value",
                     error |-> "",
                     value |-> scoreCodeQuality(files).score]]
  /\ apc' = NextOp("scoreCodeQuality")
  /\ UNCHANGED files
  /\ UNCHANGED <<grpVars, relVars, scoVars, rescVars, winVars, quaVars, snipVars, callVars>>

AnalyzeNext ==
  \/ CallAnalyzeComplexity
  \/ CallCheckCodingStandards
  \/ CallDetectDuplication
  \/ CallCalculateMaintainability
  \/ CallAnalyzeTestQuality
  \/ CallScoreCodeQuality

SpecAnalyze == AnalyzeInit /\ [][AnalyzeNext]_vars

\* no code file of the list carries a diff
NoCodeDiff == \A i \in 1..Len(files) : ~(isCodeFile(files[i].filename) /\ HasPatch(files[i]))

\* C14: for a proposal with zero changed files, and likewise one with no
\* code file carrying a diff, complexity is 0, standards 100, duplication 0
\* and maintainability 100, and scoreCodeQuality returns a score (100, not
\* the fallback) without failing.
C14_NeutralMetrics ==
  (apc = "done" /\ NoCodeDiff)
    => /\ analysis["analyzeComplexity"] = Value(Frac(0, 1))
       /\ analysis["checkCodingStandards"] = Value(Frac(100, 1))
       /\ analysis["detectDuplication"] = Value(0)
       /\ analysis["calculateMaintainability"] = Value(Frac(100, 1))
       /\ analysis["scoreCodeQuality"].kind = "value"
       /\ analysis["scoreCodeQuality"].value = 100 * SCALE

\* a list of a README with a diff and a code file without one
C14_Witness ==
  /\ apc = "done"
  /\ Len(files) = 2
  /\ NoCodeDiff
  /\ \E i \in 1..2 : HasPatch(files[i]) /\ ~isCodeFile(files[i].filename)
  /\ \E i \in 1..2 : ~HasPatch(files[i]) /\ isCodeFile(files[i].filename)
  /\ analysis["scoreCodeQuality"].value = 100 * SCALE

\* the list without its diff-less files
WithDiff(fs) == SelectSeq(fs, LAMBDA f : f.patch.present)

\* C20: a file whose diff text is absent never makes an analysis fail: for
\* every file list each of analyzeComplexity, checkCodingStandards,
\* detectDuplication, calculateMaintainability and analyzeTestQuality
\* completes without raising and returns what it returns for the list
\* without the diff-less files.
C20_DifflessExcluded ==
  apc = "done"
    => /\ \A op \in Range(AnalyzerOps) \ {"done", "scoreCodeQuality"} :
            analysis[op].kind = "value"
       /\ analysis["analyzeComplexity"] = analyzeComplexity(WithDiff(files))
       /\ analysis["checkCodingStandards"] = checkCodingStandards(WithDiff(files))
       /\ analysis["detectDuplication"] = detectDuplication(WithDiff(files))
       /\ analysis["calculateMaintainability"] = calculateMaintainability(WithDiff(files))
       /\ analysis["analyzeTestQuality"] = analyzeTestQuality(WithDiff(files))

(***************************************************************************)
(* SnippetExtractor (snippet-extractor.js): the quality heuristic          *)
(***************************************************************************)
\* keywords.some(keyword => code.toLowerCase().includes(keyword))
IncludesAny(code, keywords) ==
  LET lower == ToLower(code)
  IN \E k \in keywords : Includes(lower, k)

hasErrorHandling(code) ==
  IncludesAny(code, {<<"t","r","y">>, <<"c","a","t","c","h">>, <<"t","h","r","o","w">>, <<"e","r","r","o","r">>, <<"e","x","c","e","p","t","i","o","n">>})

hasInputValidation(code) ==
  IncludesAny(code, {<<"v","a","l","i","d","a","t","e">>, <<"c","h","e","c","k">>, <<"v","e","r","i","f","y">>, <<"a","s","s","e","r","t">>, <<"t","y","p","e","o","f">>, <<"i","n","s","t","a","n","c","e","o","f">>})

\* code.match(/\b[a-zA-Z_][a-zA-Z0-9_]*\b/g): the words that do not start
\* with a digit
NamingWords(code) == SelectSeq(WordRuns(code), LAMBDA w : w[1] \notin Digits)

hasGoodNaming(code) ==
  LET words == NamingWords(code)
      descriptiveNames == SelectSeq(words, LAMBDA w : Len(w) > 3)
  IN Len(descriptiveNames) * 10 > Len(words) * 7

hasComments(code) ==
  \/ Includes(code, <<"/","/">>)
  \/ Includes(code, <<"/","*">>)
  \/ Includes(code, <<"#">>)

\* String.prototype.split('\n')
SplitLines(text) ==
  LET breaks == {0, Len(text) + 1} \cup {p \in 1..Len(text) : text[p] = "\n"}
      Nth(i) == CHOOSE p \in breaks : Cardinality({q \in breaks : q <= p}) = i
  IN [i \in 1..(Cardinality(breaks) - 1) |-> SubSeq(text, Nth(i) + 1, Nth(i + 1) - 1)]

isWellStructured(code) ==
  LET lines == SplitLines(code)
      nonEmptyLines == SelectSeq(lines, LAMBDA l : Len(Trim(l)) > 0)
      indentedLines == SelectSeq(lines, LAMBDA l : Len(l) > 0 /\ l[1] \in SpaceChars)
  IN Len(indentedLines) * 10 > Len(nonEmptyLines) * 3

hasTestCoverage(code) ==
  IncludesAny(code, {<<"t","e","s","t">>, <<"s","p","e","c">>, <<"d","e","s","c","r","i","b","e">>, <<"i","t">>, <<"e","x","p","e","c","t">>, <<"a","s","s","e","r","t">>})

hasPerformanceOptimizations(code) ==
  IncludesAny(code, {<<"c","a","c","h","e">>, <<"m","e","m","o">>, <<"o","p","t","i","m","i","z","e">>, <<"e","f","f","i","c","i","e","n","t">>, <<"p","e","r","f","o","r","m","a","n","c","e">>})

\* (code.match(/if\s*\(/g) || []).length
ConditionalCount(code) ==
  Cardinality({p \in 1..Len(code) :
                 /\ OccursAt(code, <<"i","f">>, p)
                 /\ \E q \in (p + 2)..Len(code) :
                      /\ \A r \in (p + 2)..(q - 1) : code[r] \in SpaceChars
                      /\ code[q] = "("})

\* /\b[a-z]\b/.test(code)
SingleLetterWord(code) ==
  \E p \in 1..Len(code) :
    code[p] \in LowerLetters /\ BoundaryAt(code, p) /\ BoundaryAt(code, p + 1)

\* /(for|if|in)\s+[a-z]\b/.test(code)
LoopIdiom(code) ==
  \E s \in 1..Len(code), w \in {<<"f","o","r">>, <<"i","f">>, <<"i","n">>} :
    /\ OccursAt(code, w, s)
    /\ \E r \in (s + Len(w) + 1)..Len(code) :
         /\ \A x \in (s + Len(w))..(r - 1) : code[x] \in SpaceChars
         /\ code[r] \in LowerLetters
         /\ BoundaryAt(code, r + 1)

SnippetLengthMax == 1000

\* the array `smells`
smells(code) ==
  <<Includes(code, <<"T","O","D","O">>),
    Includes(code, <<"F","I","X","M","E">>),
    ConditionalCount(code) > 5,
    Len(code) > SnippetLengthMax,
    SingleLetterWord(code) /\ ~LoopIdiom(code)>>

\* a plausible slip: one smell is enough
hasAnyCodeSmell(code) ==
  Cardinality({i \in 1..Len(smells(code)) : smells(code)[i]}) > 0

hasCodeSmells(code) ==
  Cardinality({i \in 1..Len(smells(code)) : smells(code)[i]}) > 1

\* the arguments of evaluateSnippetQuality: a text, or an object that
\* carries the text as its `code`
TextArg(text) == [object |-> FALSE, code |-> text]
ObjectArg(text) == [object |-> TRUE, code |-> text]

\* the signals in the order of the checks, each with its points and reason
Signals(code) ==
  <<[on |-> hasErrorHandling(code), points |-> 15, reason |-> "Includes error handling"],
    [on |-> hasInputValidation(code), points |-> 10, reason |-> "Includes input validation"],
    [on |-> hasGoodNaming(code), points |-> 10, reason |-> "Uses descriptive naming"],
    [on |-> hasComments(code), points |-> 8, reason |-> "Well documented with comments"],
    [on |-> isWellStructured(code), points |-> 12, reason |-> "Well structured and organized"],
    [on |-> hasTestCoverage(code), points |-> 15, reason |-> "Includes or supports testing"],
    [on |-> hasPerformanceOptimizations(code), points |-> 10,
     reason |-> "Includes performance optimizations"],
    [on |-> hasCodeSmells(code), points |-> 0 - 15, reason |-> "Contains potential code smells"]>>

\* Array.prototype.join: the elements with the separator between them
JoinedBy(list, separator) ==
  [i \in 1..(IF list = <<>> THEN 0 ELSE 2 * Len(list) - 1) |->
     IF i % 2 = 1 THEN list[(i + 1) \div 2] ELSE separator]

\* `const code = snippet.code || snippet`: an object whose code is the empty
\* text is taken itself as the code, and code.toLowerCase() raises
evaluateSnippetQuality(snippet) ==
  IF snippet.object /\ snippet.code = <<>> THEN Raised("TypeError")
  ELSE LET triggered == SelectSeq(Signals(snippet.code), LAMBDA g : g.on)
           score == 50 + SumSeq([i \in 1..Len(triggered) |-> triggered[i].points])
       IN Value([score |-> Max(0, Min(100, score)),
                 reasoning |-> JoinedBy([i \in 1..Len(triggered) |-> triggered[i].reason],
                                        ", ")])

(***************************************************************************)
(* evaluateSnippetQuality called on texts put together from these lines    *)
(***************************************************************************)
QualityLines ==
  <<<<"t","r","y"," ","{">>,
    <<" "," ","c","h","e","c","k","(","v","a","l","u","e",")",";">>,
    <<"/","/"," ","n","o","t","e">>,
    <<"T","O","D","O">>,
    <<"F","I","X","M","E">>,
    <<"x"," ","="," ","1",";">>,
    <<"f","o","r"," ","i"," ","i","n"," ","l","i","s","t">>,
    <<"c","a","c","h","e">>,
    <<"e","x","p","e","c","t","(","t","o","t","a","l",")">>,
    <<"i","f"," ","(","a",")"," ","i","f"," ","(","b",")"," ","i","f"," ","(","c",")"," ","i","f"," ","(","d",")"," ","i","f"," ","(","e",")"," ","i","f"," ","(","f",")">>,
    [i \in 1..(SnippetLengthMax + 1) |-> "-"]>>

\* the lines numbered in S, in order, joined by line breaks
TextOf(S) ==
  LET Nth(i) == CHOOSE p \in S : Cardinality({q \in S : q <= p}) = i
  IN JoinLines([i \in 1..Cardinality(S) |-> QualityLines[Nth(i)]])

QualityTexts ==
  {TextOf(S) : S \in SUBSET (1..(Len(QualityLines) - 1))}
    \cup {TextOf(S \cup {Len(QualityLines)}) : S \in SUBSET {4, 5, 6, 10}}

QualityInit ==
  /\ qarg \in {TextArg(t) : t \in QualityTexts}
  /\ quality = 0
  /\ qpc = "call"
  /\ GrpIdle /\ RelIdle /\ ScoIdle
  /\ ResIdle /\ WinIdle /\ AnaIdle /\ SnipIdle /\ CallIdle

\* lines 723-777
EvaluateSnippetQuality ==
  /\ qpc = "call"
  /\ quality' = evaluateSnippetQuality(qarg)
  /\ qpc' = "returned"
  /\ UNCHANGED qarg
  /\ UNCHANGED <<grpVars, relVars, scoVars, rescVars, winVars, anaVars, snipVars, callVars>>

QualityNext == EvaluateSnippetQuality

SpecQuality == QualityInit /\ [][QualityNext]_vars

\* the points and the reasons of the positive signals that the text triggers
PositivePoints(text) ==
  (IF hasErrorHandling(text) THEN 15 ELSE 0)
    + (IF hasInputValidation(text) THEN 10 ELSE 0)
    + (IF hasGoodNaming(text) THEN 10 ELSE 0)
    + (IF hasComments(text) THEN 8 ELSE 0)
    + (IF isWellStructured(text) THEN 12 ELSE 0)
    + (IF hasTestCoverage(text) THEN 15 ELSE 0)
    + (IF hasPerformanceOptimizations(text) THEN 10 ELSE 0)
PositiveReasons(text) ==
  (IF hasErrorHandling(text) THEN <<"Includes error handling">> ELSE <<>>)
    \o (IF hasInputValidation(text) THEN <<"Includes input validation">> ELSE <<>>)
    \o (IF hasGoodNaming(text) THEN <<"Uses descriptive naming">> ELSE <<>>)
    \o (IF hasComments(text) THEN <<"Well documented with comments">> ELSE <<>>)
    \o (IF isWellStructured(text) THEN <<"Well structured and organized">> ELSE <<>>)
    \o (IF hasTestCoverage(text) THEN <<"Includes or supports testing">> ELSE <<>>)
    \o (IF hasPerformanceOptimizations(text)
        THEN <<"Includes performance optimizations">> ELSE <<>>)

\* the result that a penalty decision leads to
ExpectedQuality(text, penalised) ==
  Value([score |-> Max(0, Min(100, 50 + PositivePoints(text)
                                     - (IF penalised THEN 15 ELSE 0))),
         reasoning |-> JoinedBy(PositiveReasons(text)
                                  \o (IF penalised
                                      THEN <<"Contains potential code smells">>
                                      ELSE <<>>), ", ")])

\* C19 as stated: the score is 50 plus the points of the triggered positive
\* signals (15, 10, 10, 8, 12, 15, 10), minus 15 exactly when at least two
\* of the four smell indicators hold (an unresolved-work marker, more than
\* 5 conditionals, more than 1000 characters, a bare single-letter
\* identifier outside the loop idiom), clamped to [0,100]; the reasons are
\* the triggered signals in the order of the rubric.
C19_PenaltyOfFourIndicators ==
  qpc = "returned"
    => LET text == qarg.code
           indicators == <<smells(text)[1] \/ smells(text)[2], smells(text)[3],
                           smells(text)[4], smells(text)[5]>>
           held == Cardinality({i \in 1..4 : indicators[i]})
       IN quality = ExpectedQuality(text, held >= 2)

\* C19 as amended: the same, with five smell indicators, the markers TODO
\* and FIXME counting as two separate indicators.
C19_PenaltyOfFiveIndicators ==
  qpc = "returned"
    => LET text == qarg.code
           held == Cardinality({i \in 1..5 : smells(text)[i]})
       IN quality = ExpectedQuality(text, held >= 2)

\* a text with both markers and no other smell is penalised; its positive
\* signals are the comment and the testing vocabulary
C19_Witness ==
  /\ qpc = "returned"
  /\ smells(qarg.code) = <<TRUE, TRUE, FALSE, FALSE, FALSE>>
  /\ hasComments(qarg.code)
  /\ quality.value.score = 50 + 8 + 15 - 15
  /\ quality.value.reasoning[Len(quality.value.reasoning)] = "Contains potential code smells"

(***************************************************************************)
(* SnippetExtractor: blocks of added lines and their comparison            *)
(***************************************************************************)
\* `patch` as a text: the lines joined by line breaks
PatchText(patch) == JoinLines(patch.lines)

\* the loop of extractCodeChanges over the lines of the patch
RECURSIVE ChangesFrom(_, _, _, _)
ChangesFrom(lines, i, currentChange, changes) ==
  LET closed == IF Len(currentChange) > 0
                THEN Append(changes, [code |-> JoinLines(currentChange),
                                      lineCount |-> Len(currentChange)])
                ELSE changes
  IN IF i > Len(lines) THEN closed
     ELSE IF StartsWith(lines[i], <<"+">>) /\ ~StartsWith(lines[i], <<"+","+","+">>)
          THEN ChangesFrom(lines, i + 1,
                           Append(currentChange, SubSeq(lines[i], 2, Len(lines[i]))),
                           changes)
          ELSE ChangesFrom(lines, i + 1, <<>>, closed)

\* `!patch`: an absent patch and the empty text give no change
extractCodeChanges(patch) ==
  IF ~patch.present \/ PatchText(patch) = <<>> THEN <<>>
  ELSE SelectSeq(ChangesFrom(patch.lines, 1, <<>>, <<>>), LAMBDA c : c.lineCount > 2)

\* s without the positions outside `kept`
Keep(s, kept) ==
  LET Nth(i) == CHOOSE p \in kept : Cardinality({q \in kept : q <= p}) = i
  IN [i \in 1..Cardinality(kept) |-> s[Nth(i)]]

\* .replace(/\s+/g, ' '): every run of white space becomes one blank
CollapseSpaces(s) ==
  LET first == {p \in 1..Len(s) : s[p] \notin SpaceChars \/ p = 1 \/ s[p - 1] \notin SpaceChars}
      kept == Keep(s, first)
  IN [i \in 1..Len(kept) |-> IF kept[i] \in SpaceChars THEN " " ELSE kept[i]]

\* .replace(/[{}();,]/g, '')
StripPunctuation(s) ==
  Keep(s, {p \in 1..Len(s) : s[p] \notin {"{", "}", "(", ")", ";", ","}})

normalize(text) == Trim(StripPunctuation(CollapseSpaces(ToLower(text))))

calculateCodeSimilarity(code1, code2) == similarity(normalize(code1), normalize(code2))

\* a plausible slip: the bounds of the similarity window are included
findSimilarChangeRegionsInclusive(winningChanges, losingChanges) ==
  ConcatAll([l \in 1..Len(losingChanges) |->
    LET Compared(w) == [winningSnippet |-> winningChanges[w],
                        losingSnippet |-> losingChanges[l],
                        similarity |-> calculateCodeSimilarity(winningChanges[w].code,
                                                               losingChanges[l].code)]
        all == [w \in 1..Len(winningChanges) |-> Compared(w)]
    IN SelectSeq(all, LAMBDA c : /\ ~FracGT(Frac(3, 10), c.similarity)
                                 /\ ~FracGT(c.similarity, Frac(8, 10)))])

\* the losing changes in the outer loop, the winning changes in the inner
findSimilarChangeRegions(winningChanges, losingChanges) ==
  ConcatAll([l \in 1..Len(losingChanges) |->
    LET Compared(w) == [winningSnippet |-> winningChanges[w],
                        losingSnippet |-> losingChanges[l],
                        similarity |-> calculateCodeSimilarity(winningChanges[w].code,
                                                               losingChanges[l].code)]
        all == [w \in 1..Len(winningChanges) |-> Compared(w)]
    IN SelectSeq(all, LAMBDA c : /\ FracGT(c.similarity, Frac(3, 10))
                                 /\ FracGT(Frac(8, 10), c.similarity))])

Abs(n) == IF n < 0 THEN 0 - n ELSE n

\* a plausible slip: the complexity follows the size of the losing block
assessIntegrationComplexityBySize(comparison) ==
  LET sizeDiff == comparison.losingSnippet.lineCount
  IN IF sizeDiff < 5 THEN "low" ELSE IF sizeDiff < 15 THEN "medium" ELSE "high"

assessIntegrationComplexity(comparison) ==
  LET winningLines == comparison.winningSnippet.lineCount
      losingLines == comparison.losingSnippet.lineCount
      sizeDiff == Abs(winningLines - losingLines)
  IN IF sizeDiff < 5 THEN "low" ELSE IF sizeDiff < 15 THEN "medium" ELSE "high"

\* the quality of a snippet: the score as a fraction, the reasons joined
Quality(score, reasoning) == [score |-> score, reasoning |-> reasoning]

\* the comparisons whose losing block scores above 75, as snippets; the
\* block is handed over as an object whose code has at least three lines
compareFileImplementations(winningFile, losingFile, losingPR) ==
  LET winningChanges == extractCodeChanges(winningFile.patch)
      losingChanges == extractCodeChanges(losingFile.patch)
      comparisons == findSimilarChangeRegions(winningChanges, losingChanges)
      QualityOf(c) == evaluateSnippetQuality(ObjectArg(c.losingSnippet.code)).value
      good == SelectSeq(comparisons, LAMBDA c : QualityOf(c).score > 75)
  IN [i \in 1..Len(good) |->
        [type |-> "improvement",
         filename |-> losingFile.filename,
         snippet |-> good[i].losingSnippet,
         winningAlternative |-> good[i].winningSnippet,
         quality |-> Quality(Frac(QualityOf(good[i]).score, 1), QualityOf(good[i]).reasoning),
         pr |-> losingPR,
         reasoning |-> QualityOf(good[i]).reasoning,
         integrationComplexity |-> assessIntegrationComplexity(good[i])]]

(***************************************************************************)
(* SnippetExtractor: files that only the losing pull request touches       *)
(***************************************************************************)
\* evaluateFileQuality scores the patch text, handed over as an object; its
\* own score (60 and the two file-level bonuses) is computed and dropped
evaluateFileQuality(file) ==
  LET content == IF HasPatch(file) THEN PatchText(file.patch) ELSE <<>>
  IN evaluateSnippetQuality(ObjectArg(content))

\* a plausible slip: the function is scored by the heuristic alone
evaluateFunctionQualityPlain(func) ==
  LET qualityResult == evaluateSnippetQuality(TextArg(func.code)).value
  IN Value(Quality(Frac(qualityResult.score, 1), qualityResult.reasoning))

\* score + qualityResult.score * 0.3, capped at 100, in exact tenths
evaluateFunctionQuality(func) ==
  LET score == 55 + (IF Len(func.parameters) > 0 THEN 5 ELSE 0)
                  + (IF func.hasReturnValue THEN 5 ELSE 0)
                  + (IF Len(func.code) > 50 /\ Len(func.code) < 500 THEN 10 ELSE 0)
      reasoning == (IF Len(func.parameters) > 0 THEN <<"Takes parameters">> ELSE <<>>)
                     \o (IF func.hasReturnValue THEN <<"Returns a value">> ELSE <<>>)
                     \o (IF Len(func.code) > 50 /\ Len(func.code) < 500
                         THEN <<"Appropriate function length">> ELSE <<>>)
      qualityResult == evaluateSnippetQuality(TextArg(func.code)).value
  IN Value(Quality(Frac(Min(100 * 10, score * 10 + qualityResult.score * 3), 10),
                   IF reasoning = <<>> THEN qualityResult.reasoning
                   ELSE JoinedBy(reasoning, ", ") \o <<", ">> \o qualityResult.reasoning))

\* the end of the longest run of word characters that starts at p
WordEnd(s, p) ==
  CHOOSE e \in p..Len(s) :
    /\ \A r \in p..e : s[r] \in WordChars
    /\ e = Len(s) \/ s[e + 1] \notin WordChars

\* the first position from p on that holds no white space
SkipSpaces(s, p) ==
  CHOOSE q \in p..(Len(s) + 1) :
    /\ \A r \in p..(q - 1) : s[r] \in SpaceChars
    /\ q = Len(s) + 1 \/ s[q] \notin SpaceChars

IsWordAt(s, p) == p >= 1 /\ p <= Len(s) /\ s[p] \in WordChars
IsCharAt(s, p, c) == p >= 1 /\ p <= Len(s) /\ s[p] = c

\* function\s+(\w+) matches at p
DeclarationAt(s, p) ==
  /\ OccursAt(s, <<"f","u","n","c","t","i","o","n">>, p)
  /\ p + 8 <= Len(s) /\ s[p + 8] \in SpaceChars
  /\ IsWordAt(s, SkipSpaces(s, p + 8))

\* (\w+)\s*\([^)]*\)\s*\{ matches at p
CallWithBodyAt(s, p) ==
  /\ IsWordAt(s, p)
  /\ LET open == SkipSpaces(s, WordEnd(s, p) + 1)
     IN /\ IsCharAt(s, open, "(")
        /\ \E close \in (open + 1)..Len(s) :
             /\ s[close] = ")"
             /\ \A r \in (open + 1)..(close - 1) : s[r] # ")"
             /\ IsCharAt(s, SkipSpaces(s, close + 1), "{")

\* (\w+)\s*:\s*function matches at p
PropertyAt(s, p) ==
  /\ IsWordAt(s, p)
  /\ LET colon == SkipSpaces(s, WordEnd(s, p) + 1)
     IN /\ IsCharAt(s, colon, ":")
        /\ OccursAt(s, <<"f","u","n","c","t","i","o","n">>, SkipSpaces(s, colon + 1))

\* trimmed.match(/(?:function\s+(\w+)|(\w+)\s*\([^)]*\)\s*\{|(\w+)\s*:\s*function)/):
\* the leftmost match, the alternatives tried in their order; the name is
\* the group that took part
FunctionMatch(s) ==
  LET starts == {p \in 1..Len(s) :
                   DeclarationAt(s, p) \/ CallWithBodyAt(s, p) \/ PropertyAt(s, p)}
      p == CHOOSE q \in starts : \A r \in starts : q <= r
  IN IF starts = {} THEN [matched |-> FALSE, name |-> <<>>]
     ELSE IF DeclarationAt(s, p)
          THEN [matched |-> TRUE,
                name |-> SubSeq(s, SkipSpaces(s, p + 8), WordEnd(s, SkipSpaces(s, p + 8)))]
          ELSE [matched |-> TRUE, name |-> SubSeq(s, p, WordEnd(s, p))]

\* String.prototype.split with a one-character separator
SplitOn(text, separator) ==
  LET breaks == {0, Len(text) + 1} \cup {p \in 1..Len(text) : text[p] = separator}
      Nth(i) == CHOOSE p \in breaks : Cardinality({q \in breaks : q <= p}) = i
  IN [i \in 1..(Cardinality(breaks) - 1) |-> SubSeq(text, Nth(i) + 1, Nth(i + 1) - 1)]

\* /\(([^)]*)\)/: the first parenthesis that is closed, up to its closing
extractParameters(functionDeclaration) ==
  LET s == functionDeclaration
      opens == {o \in 1..Len(s) : s[o] = "(" /\ \E c \in (o + 1)..Len(s) : s[c] = ")"}
      open == CHOOSE o \in opens : \A r \in opens : o <= r
      close == CHOOSE c \in (open + 1)..Len(s) :
                 s[c] = ")" /\ \A r \in (open + 1)..(c - 1) : s[r] # ")"
      inner == SubSeq(s, open + 1, close - 1)
      pieces == SplitOn(inner, ",")
  IN IF opens = {} \/ inner = <<>> THEN <<>>
     ELSE SelectSeq([i \in 1..Len(pieces) |-> Trim(pieces[i])], LAMBDA piece : Len(piece) > 0)

\* (line.match(/\{/g) || []).length - (line.match(/\}/g) || []).length
BraceBalance(line) == CountOf(line, <<"{">>) - CountOf(line, <<"}">>)

\* the loop of extractAddedFunctions; currentFunction is <<>> for null
RECURSIVE FunctionsFrom(_, _, _, _, _)
FunctionsFrom(addedLines, i, currentFunction, braceCount, functions) ==
  IF i > Len(addedLines) THEN functions
  ELSE LET line == addedLines[i]
           trimmed == Trim(line)
           functionMatch == FunctionMatch(trimmed)
       IN IF functionMatch.matched /\ currentFunction = <<>>
          THEN FunctionsFrom(addedLines, i + 1,
                             <<[name |-> functionMatch.name,
                                code |-> line \o <<"\n">>,
                                parameters |-> extractParameters(trimmed),
                                hasReturnValue |-> FALSE]>>,
                             BraceBalance(line), functions)
          ELSE IF currentFunction # <<>>
               THEN LET grown == [currentFunction[1] EXCEPT
                                    !.code = @ \o line \o <<"\n">>,
                                    !.hasReturnValue =
                                       @ \/ Includes(trimmed, <<"r","e","t","u","r","n">>)]
                        count == braceCount + BraceBalance(line)
                    IN IF count = 0
                       THEN FunctionsFrom(addedLines, i + 1, <<>>, count,
                                          Append(functions, grown))
                       ELSE FunctionsFrom(addedLines, i + 1, <<grown>>, count, functions)
               ELSE FunctionsFrom(addedLines, i + 1, currentFunction, braceCount, functions)

\* patch.split raises when the file has no patch
extractAddedFunctions(patch) ==
  IF ~patch.present THEN Raised("TypeError")
  ELSE Value(SelectSeq(FunctionsFrom(AddedLines(patch.lines), 1, <<>>, 0, <<>>),
                       LAMBDA func : Len(func.code) > 50))

\* what is raised inside is caught and leaves the snippets pushed so far
analyzeNewFileContribution(file, losingPR) ==
  IF file.status = "added"
  THEN LET quality0 == evaluateFileQuality(file)
       IN IF quality0.kind = "raised" \/ ~(quality0.value.score > 80) THEN <<>>
          ELSE <<[type |-> "new_file",
                  filename |-> file.filename,
                  snippet |-> PatchText(file.patch),
                  quality |-> Quality(Frac(quality0.value.score, 1), quality0.value.reasoning),
                  pr |-> losingPR,
                  reasoning |-> <<"New file with high quality: ">> \o quality0.value.reasoning,
                  integrationComplexity |-> "medium"]>>
  ELSE LET functions == extractAddedFunctions(file.patch)
           QualityOf(func) == evaluateFunctionQuality(func).value
           good == SelectSeq(functions.value,
                             LAMBDA func : FracGT(QualityOf(func).score, Frac(80, 1)))
       IN IF functions.kind = "raised" THEN <<>>
          ELSE [i \in 1..Len(good) |->
                  [type |-> "function",
                   filename |-> file.filename,
                   snippet |-> good[i].code,
                   functionName |-> good[i].name,
                   quality |-> QualityOf(good[i]),
                   pr |-> losingPR,
                   reasoning |-> <<"High-quality function: ">> \o QualityOf(good[i]).reasoning,
                   integrationComplexity |-> "low"]]

\* fileMap.get: the last winning file of that name, <<>> when there is none
WinningFileOf(winning, filename) ==
  LET at == {i \in 1..Len(winning) : winning[i].filename = filename}
  IN IF at = {} THEN <<>> ELSE <<winning[CHOOSE i \in at : \A j \in at : j <= i]>>

compareAndExtractSnippets(winning, losing, losingPR) ==
  ConcatAll([i \in 1..Len(losing) |->
    LET winningFile == WinningFileOf(winning, losing[i].filename)
    IN IF winningFile # <<>>
       THEN compareFileImplementations(winningFile[1], losing[i], losingPR)
       ELSE analyzeNewFileContribution(losing[i], losingPR)])

complexityOrder(level) ==
  CASE level = "low" -> 1 [] level = "medium" -> 2 [] level = "high" -> 3

\* the comparator of rankSnippets is negative
SortsBefore(a, b) ==
  IF ~FracEq(a.quality.score, b.quality.score)
  THEN FracGT(a.quality.score, b.quality.score)
  ELSE complexityOrder(a.integrationComplexity) < complexityOrder(b.integrationComplexity)

\* Array.prototype.sort is stable: an element goes before the first one
\* that it sorts before
RECURSIVE SortedBy(_, _, _)
SortedBy(list, i, sorted) ==
  IF i > Len(list) THEN sorted
  ELSE LET later == {k \in 1..Len(sorted) : SortsBefore(list[i], sorted[k])}
           at == IF later = {} THEN Len(sorted) + 1
                 ELSE CHOOSE k \in later : \A j \in later : k <= j
       IN SortedBy(list, i + 1,
                   SubSeq(sorted, 1, at - 1) \o <<list[i]>> \o SubSeq(sorted, at, Len(sorted)))

\* a plausible slip: the list is returned as collected
rankSnippetsUnsorted(list) == list

rankSnippets(list) == SortedBy(list, 1, <<>>)

ReturnedMax == 10

\* rankedSnippets.slice(0, 10)
TopSnippets(list) == SubSeq(list, 1, Min(ReturnedMax, Len(list)))

(***************************************************************************)
(* extractSuperiorSnippets: the pull requests and what listFiles answers   *)
(***************************************************************************)
MaxLosers == 2       \* longest list of losing pull requests

\* the lines of a block as the patch marks them
Added(block) == [i \in 1..Len(block) |-> <<"+">> \o block[i]]
Closing(n) == [i \in 1..n |-> <<"}">>]
Context == << <<" ","d","o","n","e","(",")",";">> >>

WinningBlock == <<<<"t","r","y"," ","{">>,
                <<" "," ","v","a","l","i","d","a","t","e","(","i","n","p","u","t",")",";">>,
                <<"}"," ","c","a","t","c","h"," ","(","e","r","r","o","r",")"," ","{">>>>

\* auth.js of the winner: the same three lines closed by 0, 4, 5, 14 and 15
\* braces
WinningAuth ==
  [filename |-> <<"a","u","t","h",".","j","s">>, status |-> "modified",
   patch |-> Patch(<< <<"@","@"," ","-","1",",","3"," ","+","1",",","6","0"," ","@","@">> >>
                     \o Added(WinningBlock) \o Context
                     \o Added(WinningBlock \o Closing(4)) \o Context
                     \o Added(WinningBlock \o Closing(5)) \o Context
                     \o Added(WinningBlock \o Closing(14)) \o Context
                     \o Added(WinningBlock \o Closing(15)))]

WinningUtil ==
  [filename |-> <<"u","t","i","l",".","j","s">>, status |-> "modified",
    patch |-> Patch(<<<<"@","@"," ","-","1"," ","+","1",",","4"," ","@","@">>,
                <<" ","k","e","e","p","(",")",";">>,
                <<"+","t","r","y">>,
                <<"+","c","h","e","c","k">>,
                <<"+","#","a","a","a","a","a","a","a","a","a">>>>)]

\* the answers of listFiles for the winning pull request
WinningWorlds == {<<WinningAuth, WinningUtil>>, <<>>}

\* a function of more than 500 characters and one of fewer
LongFunction ==
  <<<<"f","u","n","c","t","i","o","n"," ","r","u","n","(",")"," ","{">>,
    <<"/","/"," ">> \o [i \in 1..470 |-> "-"],
    <<"t","r","y"," ","{"," ","c","h","e","c","k","(",")",";"," ","}"," ","c","a","t","c","h"," ","{"," ","}">>,
    <<"}">>>>
ShortFunction ==
  <<<<"f","u","n","c","t","i","o","n"," ","t","o","t","a","l","(","l","i","s","t",")"," ","{">>,
    <<" "," ","c","o","n","s","t"," ","s","i","z","e"," ","="," ","l","i","s","t",".","l","e","n","g","t","h",";">>,
    <<" "," ","r","e","t","u","r","n"," ","s","i","z","e",";">>,
    <<"}">>>>

Helpers ==
  [filename |-> <<"h","e","l","p","e","r","s",".","j","s">>, status |-> "modified",
   patch |-> Patch(<<<<"@","@"," ","-","1"," ","+","1",",","9"," ","@","@">>, <<" ","k","e","e","p","(",")",";">>>>
                     \o Added(LongFunction) \o Added(ShortFunction))]

\* the answers of listFiles for the losing pull requests
LosingFiles(number) ==
  CASE number = 11 ->
    <<[filename |-> <<"n","1",".","j","s">>, status |-> "added",
     patch |-> Patch(<<<<"@","@"," ","-","0",",","0"," ","+","1"," ","@","@">>,
                 <<"+","t","r","y"," ","{"," ","c","h","e","c","k","(","v","a","l","u","e",","," ","o","t","h","e","r",")",";"," ","}">>>>)],
    [filename |-> <<"n","2",".","j","s">>, status |-> "added",
     patch |-> Patch(<<<<"@","@"," ","-","0",",","0"," ","+","1",",","2"," ","@","@">>,
                 <<"+","t","r","y"," ","{"," ","c","h","e","c","k","(","v","a","l","u","e",")",";"," ","}">>,
                 <<"+","/","/"," ","n","o","t","e">>>>)],
    [filename |-> <<"n","3",".","j","s">>, status |-> "added",
     patch |-> Patch(<<<<"@","@"," ","-","0",",","0"," ","+","1",",","2"," ","@","@">>,
                 <<"+","t","r","y"," ","{"," ","c","a","c","h","e","(",")",";"," ","}">>,
                 <<"+","/","/"," ","o","k">>>>)],
    [filename |-> <<"n","4",".","j","s">>, status |-> "added",
     patch |-> Patch(<<<<"@","@"," ","-","0",",","0"," ","+","1"," ","@","@">>,
                 <<"+","t","r","y"," ","{"," ","c","h","e","c","k","(","v","a","l","u","e",","," ","o","t","h","e","r",")",";"," ","}">>>>)],
    [filename |-> <<"n","5",".","j","s">>, status |-> "added",
     patch |-> Patch(<<<<"@","@"," ","-","0",",","0"," ","+","1",",","2"," ","@","@">>,
                 <<"+","t","r","y"," ","{"," ","c","h","e","c","k","(","v","a","l","u","e",")",";"," ","}">>,
                 <<"+","/","/"," ","n","o","t","e">>>>)],
    [filename |-> <<"n","6",".","j","s">>, status |-> "added",
     patch |-> Patch(<<<<"@","@"," ","-","0",",","0"," ","+","1",",","2"," ","@","@">>,
                 <<"+","t","r","y"," ","{"," ","c","a","c","h","e","(",")",";"," ","}">>,
                 <<"+","/","/"," ","o","k">>>>)],
    [filename |-> <<"n","7",".","j","s">>, status |-> "added",
     patch |-> Patch(<<<<"@","@"," ","-","0",",","0"," ","+","1"," ","@","@">>,
                 <<"+","t","r","y"," ","{"," ","c","h","e","c","k","(","v","a","l","u","e",","," ","o","t","h","e","r",")",";"," ","}">>>>)],
    [filename |-> <<"n","8",".","j","s">>, status |-> "added",
     patch |-> Patch(<<<<"@","@"," ","-","0",",","0"," ","+","1",",","2"," ","@","@">>,
                 <<"+","t","r","y"," ","{"," ","c","h","e","c","k","(","v","a","l","u","e",")",";"," ","}">>,
                 <<"+","/","/"," ","n","o","t","e">>>>)],
    [filename |-> <<"n","9",".","j","s">>, status |-> "added",
     patch |-> Patch(<<<<"@","@"," ","-","0",",","0"," ","+","1",",","2"," ","@","@">>,
                 <<"+","t","r","y"," ","{"," ","c","a","c","h","e","(",")",";"," ","}">>,
                 <<"+","/","/"," ","o","k">>>>)]>>
    [] number = 12 ->
    <<[filename |-> <<"a","u","t","h",".","j","s">>, status |-> "modified",
     patch |-> Patch(<<<<"@","@"," ","-","1",",","3"," ","+","1",",","6"," ","@","@">>,
                 <<"+","t","r","y"," ","{">>,
                 <<"+"," "," ","v","e","r","i","f","y","(","t","o","k","e","n",")",";">>,
                 <<"+","}"," ","c","a","t","c","h"," ","(","e","r","r","o","r",")"," ","{">>,
                 <<"-","o","l","d","(",")",";">>,
                 <<"+","+","+"," ","m","a","r","k","e","d">>,
                 <<"+","s","h","o","r","t">>>>)]>>
    [] number = 13 ->
    <<Helpers,
    [filename |-> <<"g","o","n","e",".","j","s">>, status |-> "modified",
     patch |-> NoPatch]>>
    [] number = 14 ->
    <<[filename |-> <<"u","t","i","l",".","j","s">>, status |-> "modified",
     patch |-> Patch(<<<<"@","@"," ","-","1"," ","+","1",",","2","0"," ","@","@">>,
                 <<"+","t","r","y">>,
                 <<"+","c","h","e","c","k">>,
                 <<"+","#","a","a","a","a","a","b","b","b","b">>,
                 <<" ","k","e","e","p","(",")",";">>,
                 <<"+","t","r","y">>,
                 <<"+","t","y","p","e","o","f">>,
                 <<"+","#">>,
                 <<" ","k","e","e","p","(",")",";">>,
                 <<"+","t","r","y">>,
                 <<"+","t","y","p","e","o","f">>,
                 <<"+","#","b","b","b","b","b","b","b","b","b">>,
                 <<" ","k","e","e","p","(",")",";">>,
                 <<"+","z","z","z">>,
                 <<"+","c","h","e","c","k">>,
                 <<"+","#","a","a","a","a","a","z","z","z","z">>,
                 <<" ","k","e","e","p","(",")",";">>,
                 <<"+","t","r","y">>,
                 <<"+","c","h","e","c","k">>,
                 <<"+","#","a","a","a","a","a","a","a","b","b">>>>)],
    [filename |-> <<"p","l","a","i","n",".","j","s">>, status |-> "added",
     patch |-> Patch(<<<<"@","@"," ","-","0",",","0"," ","+","1"," ","@","@">>,
                 <<"+","t","r","y"," ","{"," ","c","h","e","c","k","(","a",","," ","b",")",";"," ","}">>>>)],
    [filename |-> <<"e","m","p","t","y",".","j","s">>, status |-> "added",
     patch |-> NoPatch],
    [filename |-> <<"b","l","a","n","k",".","j","s">>, status |-> "added",
     patch |-> Patch(<<<<>>>>)],
    [filename |-> <<"f","r","e","s","h",".","j","s">>, status |-> "added",
     patch |-> Patch(<<<<"@","@"," ","-","0",",","0"," ","+","1",",","2"," ","@","@">>,
                 <<"+","t","r","y"," ","{"," ","c","h","e","c","k","(","v","a","l","u","e",")",";"," ","}">>,
                 <<"+","/","/"," ","n","o","t","e">>>>)]>>

LosingPool ==
  {[number |-> 11, title |-> "Add pages", author |-> "dev11"],
   [number |-> 12, title |-> "Login check", author |-> "dev12"],
   [number |-> 13, title |-> "Helpers", author |-> "dev13"],
   [number |-> 14, title |-> "Utilities", author |-> "dev14"]}

SnipInit ==
  /\ losingPRs \in ListsOf(LosingPool, MaxLosers)
  /\ winningFiles = <<>>
  /\ lidx = 0
  /\ snippets = <<>>
  /\ ranked = <<>>
  /\ spc = "start"
  /\ GrpIdle /\ RelIdle /\ ScoIdle
  /\ ResIdle /\ WinIdle /\ AnaIdle /\ QuaIdle /\ CallIdle

\* line 493: the files of the winning pull request arrive
GetWinningFiles ==
  /\ spc = "start"
  /\ \E world \in WinningWorlds : winningFiles' = world
  /\ lidx' = 1
  /\ spc' = "loop"
  /\ UNCHANGED <<losingPRs, snippets, ranked>>
  /\ UNCHANGED <<grpVars, relVars, scoVars, rescVars, winVars, anaVars, quaVars, callVars>>

\* lines 495-499: one turn of the loop over the losing pull requests
CompareLosingPR ==
  /\ spc = "loop"
  /\ lidx <= Len(losingPRs)
  /\ snippets' = snippets \o compareAndExtractSnippets(winningFiles,
                                                       LosingFiles(losingPRs[lidx].number),
                                                       losingPRs[lidx])
  /\ lidx' = lidx + 1
  /\ UNCHANGED <<winningFiles, losingPRs, ranked, spc>>
  /\ UNCHANGED <<grpVars, relVars, scoVars, rescVars, winVars, anaVars, quaVars, callVars>>

\* lines 501-504: rank, cut and return
RankAndReturn ==
  /\ spc = "loop"
  /\ lidx > Len(losingPRs)
  /\ ranked' = TopSnippets(rankSnippets(snippets))
  /\ spc' = "returned"
  /\ UNCHANGED <<winningFiles, losingPRs, lidx, snippets>>
  /\ UNCHANGED <<grpVars, relVars, scoVars, rescVars, winVars, anaVars, quaVars, callVars>>

\* lines 505-508: getPRFiles rejects; the run is marked failed and the
\* empty list is returned
GetPRFilesFails ==
  /\ spc = "start" \/ (spc = "loop" /\ lidx <= Len(losingPRs))
  /\ ranked' = <<>>
  /\ spc' = "failed"
  /\ UNCHANGED <<winningFiles, losingPRs, lidx, snippets>>
  /\ UNCHANGED <<grpVars, relVars, scoVars, rescVars, winVars, anaVars, quaVars, callVars>>

SnipNext == GetWinningFiles \/ CompareLosingPR \/ RankAndReturn \/ GetPRFilesFails

SpecSnip == SnipInit /\ [][SnipNext]_vars

(***************************************************************************)
(* Properties of extractSuperiorSnippets                                   *)
(***************************************************************************)
\* how often x occurs in the list
Count(list, x) == Cardinality({i \in 1..Len(list) : list[i] = x})

\* a ranks strictly before b: a higher score, or the same score and a
\* lower integration complexity
RanksBefore2(a, b) ==
  \/ FracGT(a.quality.score, b.quality.score)
  \/ /\ FracEq(a.quality.score, b.quality.score)
     /\ complexityOrder(a.integrationComplexity) < complexityOrder(b.integrationComplexity)

\* the losing pull requests whose turn of the loop is over
Compared == IF spc = "start" THEN {} ELSE 1..(lidx - 1)

\* the snippets of one kind that come from a file of a pull request
SnippetsOf(type, losingPR, filename) ==
  SelectSeq(snippets, LAMBDA s : /\ s.type = type
                                 /\ s.pr = losingPR
                                 /\ s.filename = filename)

\* C15: the returned list has at most 10 elements and is the head of the
\* candidates in the order of quality score descending, then integration
\* complexity ascending: it is made of candidates, it is in that order, and
\* no candidate left out ranks strictly before a returned one. When
\* listFiles fails the returned list is empty.
C15_TopTenInOrder ==
  /\ spc = "failed" => ranked = <<>>
  /\ spc = "returned" =>
       /\ Len(ranked) <= 10
       /\ Len(ranked) = Min(10, Len(snippets))
       /\ \A i \in 1..Len(ranked) : Count(ranked, ranked[i]) <= Count(snippets, ranked[i])
       /\ \A i, j \in 1..Len(ranked) : i < j => ~RanksBefore2(ranked[j], ranked[i])
       /\ \A k \in 1..Len(snippets) :
            Count(ranked, snippets[k]) < Count(snippets, snippets[k])
              => \A i \in 1..Len(ranked) : ~RanksBefore2(snippets[k], ranked[i])

\* more than 10 candidates, 10 returned, among them two of the same score
\* where the lower complexity comes first
C15_Witness ==
  /\ spc = "returned"
  /\ Len(snippets) > 10
  /\ Len(ranked) = 10
  /\ \E i \in 1..9 :
       /\ FracEq(ranked[i].quality.score, ranked[i + 1].quality.score)
       /\ ranked[i].integrationComplexity = "low"
       /\ ranked[i + 1].integrationComplexity = "medium"
  /\ \E k \in 1..Len(snippets) : Count(ranked, snippets[k]) = 0

\* C16: every improvement snippet is a (losing block, winning block) pair
\* of one filename with 0.3 < similarity < 0.8 and a losing block that
\* scores above 75; a pair whose similarity is 0.8 or more, or 0.3 or less,
\* gives no improvement snippet.
C16_ImprovementWindow ==
  LET Pairs(k) ==
        LET losing == LosingFiles(losingPRs[k].number)
        IN UNION {LET winningFile == WinningFileOf(winningFiles, losing[f].filename)
                  IN IF winningFile = <<>> THEN {}
                     ELSE LET losingChanges == extractCodeChanges(losing[f].patch)
                              winningChanges == extractCodeChanges(winningFile[1].patch)
                          IN {[pr |-> losingPRs[k], filename |-> losing[f].filename,
                               losingBlock |-> losingChanges[l],
                               winningBlock |-> winningChanges[w]] :
                                l \in 1..Len(losingChanges), w \in 1..Len(winningChanges)}
                  : f \in 1..Len(losing)}
      SimilarityOf(p) == calculateCodeSimilarity(p.winningBlock.code, p.losingBlock.code)
      InWindow(p) == /\ FracGT(SimilarityOf(p), Frac(3, 10))
                     /\ FracGT(Frac(8, 10), SimilarityOf(p))
      Taken(p, s) == /\ s.type = "improvement"
                     /\ s.pr = p.pr
                     /\ s.filename = p.filename
                     /\ s.snippet = p.losingBlock
                     /\ s.winningAlternative = p.winningBlock
      pairs == UNION {Pairs(k) : k \in Compared}
  IN /\ \A i \in 1..Len(snippets) :
          snippets[i].type = "improvement"
            => \E p \in pairs :
                 /\ Taken(p, snippets[i])
                 /\ InWindow(p)
                 /\ evaluateSnippetQuality(TextArg(p.losingBlock.code)).value.score > 75
     /\ \A p \in pairs :
          ~InWindow(p) => \A i \in 1..Len(snippets) : ~Taken(p, snippets[i])

\* util.js has been compared: the block at similarity 1/3 is a snippet,
\* the blocks at 0.8, 0.9 and 0.3 and the block of quality 68 are not
C16_Witness ==
  /\ \E k \in Compared : losingPRs[k].number = 14
  /\ winningFiles # <<>>
  /\ Len(SnippetsOf("improvement", [number |-> 14, title |-> "Utilities", author |-> "dev14"],
                    <<"u","t","i","l",".","j","s">>)) = 1
  /\ \E i \in 1..Len(snippets) :
       /\ snippets[i].type = "improvement"
       /\ calculateCodeSimilarity(snippets[i].winningAlternative.code,
                                  snippets[i].snippet.code) = Frac(7, 21)

\* the functions of a file, none when the extraction raises
FunctionsOf(file) ==
  IF extractAddedFunctions(file.patch).kind = "raised" THEN <<>>
  ELSE extractAddedFunctions(file.patch).value

\* the files of the compared pull requests that the winner does not touch
OnlyLosing ==
  UNION {LET losing == LosingFiles(losingPRs[k].number)
         IN {[pr |-> losingPRs[k], file |-> losing[f]] :
               f \in {g \in 1..Len(losing) :
                        WinningFileOf(winningFiles, losing[g].filename) = <<>>}}
         : k \in Compared}

\* the file is kept as a new_file snippet exactly when the heuristic
\* scores its text above 80
NewFileKept ==
  \A e \in OnlyLosing :
    e.file.status = "added"
      => LET result == evaluateSnippetQuality(ObjectArg(
                         IF e.file.patch.present THEN PatchText(e.file.patch) ELSE <<>>))
         IN (SnippetsOf("new_file", e.pr, e.file.filename) # <<>>)
              <=> (result.kind = "value" /\ result.value.score > 80)

FunctionKept(e, func) ==
  \E i \in 1..Len(snippets) :
    /\ snippets[i].type = "function"
    /\ snippets[i].pr = e.pr
    /\ snippets[i].filename = e.file.filename
    /\ snippets[i].functionName = func.name
    /\ snippets[i].snippet = func.code

\* C17 as stated: for a file absent from the winner, a wholly added file
\* is kept as a new_file snippet iff the heuristic score of its text is
\* above 80, and an extracted function is kept as a function snippet iff
\* the heuristic score of its code is above 80.
C17_KeptAboveEighty ==
  /\ NewFileKept
  /\ \A e \in OnlyLosing :
       e.file.status # "added"
         => \A n \in 1..Len(FunctionsOf(e.file)) :
              LET func == FunctionsOf(e.file)[n]
              IN FunctionKept(e, func)
                   <=> evaluateSnippetQuality(TextArg(func.code)).value.score > 80

\* C17 as amended: the same for added files; an extracted function is kept
\* iff 55, plus 5 if it has parameters, plus 5 if a later line holds
\* `return`, plus 10 if its code has more than 50 and fewer than 500
\* characters, plus 0.3 times the heuristic score of its code, is above 80.
C17_FunctionKeptByBlend ==
  /\ NewFileKept
  /\ \A e \in OnlyLosing :
       e.file.status # "added"
         => \A n \in 1..Len(FunctionsOf(e.file)) :
              LET func == FunctionsOf(e.file)[n]
                  base == 55 + (IF func.parameters # <<>> THEN 5 ELSE 0)
                             + (IF func.hasReturnValue THEN 5 ELSE 0)
                             + (IF Len(func.code) > 50 /\ Len(func.code) < 500
                                THEN 10 ELSE 0)
                  heuristic == evaluateSnippetQuality(TextArg(func.code)).value.score
              IN FunctionKept(e, func) <=> 10 * base + 3 * heuristic > 10 * 80

\* helpers.js has been analysed: the short function, heuristic score 72,
\* is kept; the long one, heuristic score 83, is not; a new file is kept
\* and another one is not
C17_Witness ==
  /\ \E e \in OnlyLosing :
       /\ e.file.status # "added"
       /\ \E n, m \in 1..Len(FunctionsOf(e.file)) :
            /\ FunctionKept(e, FunctionsOf(e.file)[n])
            /\ evaluateSnippetQuality(TextArg(FunctionsOf(e.file)[n].code)).value.score = 72
            /\ ~FunctionKept(e, FunctionsOf(e.file)[m])
            /\ evaluateSnippetQuality(TextArg(FunctionsOf(e.file)[m].code)).value.score = 83
  /\ \E e \in OnlyLosing :
       e.file.status = "added" /\ SnippetsOf("new_file", e.pr, e.file.filename) # <<>>
  /\ \E e \in OnlyLosing :
       /\ e.file.status = "added" /\ HasPatch(e.file)
       /\ SnippetsOf("new_file", e.pr, e.file.filename) = <<>>

\* C18: the integration complexity is low, medium or high and follows the
\* kind: for an improvement, with d the absolute difference of the line
\* counts of the two blocks, low for d < 5, medium for 5 <= d < 15, high
\* for d >= 15; medium for a new file; low for a function.
C18_ComplexityByKind ==
  \A i \in 1..Len(snippets) :
    LET s == snippets[i]
        d == Abs(s.winningAlternative.lineCount - s.snippet.lineCount)
    IN /\ s.integrationComplexity \in {"low", "medium", "high"}
       /\ s.type = "improvement" =>
            /\ d < 5 => s.integrationComplexity = "low"
            /\ (5 <= d /\ d < 15) => s.integrationComplexity = "medium"
            /\ d >= 15 => s.integrationComplexity = "high"
       /\ s.type = "new_file" => s.integrationComplexity = "medium"
       /\ s.type = "function" => s.integrationComplexity = "low"

\* improvements at the differences 4, 5, 14 and 15 and a function snippet
C18_Witness ==
  /\ \A d \in {4, 5, 14, 15} :
       \E i \in 1..Len(snippets) :
         /\ snippets[i].type = "improvement"
         /\ Abs(snippets[i].winningAlternative.lineCount - snippets[i].snippet.lineCount) = d
  /\ \E i \in 1..Len(snippets) : snippets[i].type = "function"

(***************************************************************************)
(* Properties of the collaborator calls                                    *)
(***************************************************************************)
\* C21: a collaborator call that fails once and succeeds when made again
\* is retried, so the answer is the one of the call that succeeds: the
\* groups of a call during which one listing or fetching call failed are
\* the groups of the same call made with no failure.
C21_TransientFailureRetried ==
  (gpc = "returned" /\ run = 2 /\ outage = NoOutage)
    => /\ Len(groups1) = Len(groups)
       /\ Memberships(groups1) = Memberships(groups)

\* C22: a failure on one proposal degrades only that proposal: when
\* fetching the files of one losing pull request fails, the snippets found
\* in the losing pull requests compared before are still ranked and
\* returned.
C22_OtherLosersStillReturned ==
  spc = "failed" => ranked = TopSnippets(rankSnippets(snippets))

\* C23: grouping is single-hop: for a chain A ~ B, B ~ C with A not
\* related to C, iterated in the order A, B, C, the group anchored at A is
\* {A, B} and C appears in no emitted group.
C23_SingleHop ==
  (/\ gpc = "returned"
   /\ Len(prs) = 3
   /\ Range(openPRs) = Range(prs)
   /\ outage = NoOutage
   /\ Related(prs[1], prs[2]) /\ Related(prs[2], prs[3])
   /\ ~Related(prs[1], prs[3]) /\ ~Related(prs[3], prs[1]))
    => /\ Len(groups) >= 1
       /\ MemberNumbers(groups[1]) = {prs[1], prs[2]}
       /\ prs[3] \notin GroupedNumbers

(***************************************************************************)
(* extractAddedFunctions called on patches made of these added lines       *)
(***************************************************************************)
MaxAdded == 3        \* most added lines of a patch

FunctionLines ==
  {<<"f","u","n","c","t","i","o","n"," ","o","n","e","(",")"," ","{"," ","r","e","t","u","r","n"," ","c","o","m","p","u","t","e","(","1",")"," ","+"," ","c","o","m","p","u","t","e","(","2",")",";"," ","}">>,
   <<"f","u","n","c","t","i","o","n"," ","t","w","o","(","f","i","r","s","t",","," ","s","e","c","o","n","d",")"," ","{">>,
   <<" "," ","r","e","t","u","r","n"," ","f","i","r","s","t"," ","+"," ","s","e","c","o","n","d"," ","+"," ","o","f","f","s","e","t",";">>,
   <<"}">>,
   <<"c","o","n","s","t"," ","t","o","t","a","l"," ","="," ","c","o","m","p","u","t","e","(","1",")"," ","+"," ","c","o","m","p","u","t","e","(","2",")"," ","+"," ","c","o","m","p","u","t","e","(","3",")",";">>,
   <<" "," ","i","f"," ","(","f","i","r","s","t",")"," ","{"," ","s","e","c","o","n","d","(",")",";"," ","}">>}

\* the lists of at most n elements of S
SeqsOf(S, n) == UNION {[1..k -> S] : k \in 0..n}

FunctionsInit ==
  /\ callArg \in {NoPatch} \cup {Patch(Added(l)) : l \in SeqsOf(FunctionLines, MaxAdded)}
  /\ callResult = 0
  /\ callPc = "call"
  /\ GrpIdle /\ RelIdle /\ ScoIdle
  /\ ResIdle /\ WinIdle /\ AnaIdle /\ QuaIdle /\ SnipIdle

\* lines 836-873
CallExtractAddedFunctions ==
  /\ callPc = "call"
  /\ callResult' = extractAddedFunctions(callArg)
  /\ callPc' = "returned"
  /\ UNCHANGED callArg
  /\ UNCHANGED <<grpVars, relVars, scoVars, rescVars, winVars, anaVars, quaVars, snipVars>>

FunctionsNext == CallExtractAddedFunctions

SpecFunctions == FunctionsInit /\ [][FunctionsNext]_vars

\* the lines of a text that ends with a line break
LinesOf(text) == SubSeq(SplitLines(text), 1, Len(SplitLines(text)) - 1)

\* C24: every emitted function begins at a declaration-like line and ends
\* on the first line at which the running brace nesting is back to zero,
\* the declaration line included (a one-line function does not absorb the
\* following lines); so its net brace balance is zero.
C24_EndsAtFirstBalance ==
  (callPc = "returned" /\ callResult.kind = "value")
    => \A n \in 1..Len(callResult.value) :
         LET ls == LinesOf(callResult.value[n].code)
             Running(k) == SumSeq([i \in 1..k |-> BraceBalance(ls[i])])
         IN /\ FunctionMatch(Trim(ls[1])).matched
            /\ Running(Len(ls)) = 0
            /\ \A k \in 1..(Len(ls) - 1) : Running(k) # 0

(***************************************************************************)
(* extractCodeBlocks called on patches made of these lines                 *)
(***************************************************************************)
MaxDiffLines == 4    \* most lines of a patch

DiffLines ==
  {<<"+","c","o","n","s","t"," ","t","o","t","a","l"," ","="," ","p","r","i","c","e",";">>,
   <<"+","r","e","n","d","e","r","(","t","o","t","a","l",","," ","l","a","b","e","l",")",";">>,
   <<" ","k","e","e","p","(","t","o","t","a","l",")",";">>,
   <<"+","x"," ","="," ","1",";">>,
   <<"+","/","/"," ","a","b","o","u","t"," ","t","h","e"," ","t","o","t","a","l">>,
   <<"-","c","o","n","s","t"," ","o","l","d"," ","="," ","p","r","i","c","e",";">>}

BlocksInit ==
  /\ callArg \in {Patch(l) : l \in SeqsOf(DiffLines, MaxDiffLines)}
  /\ callResult = 0
  /\ callPc = "call"
  /\ GrpIdle /\ RelIdle /\ ScoIdle
  /\ ResIdle /\ WinIdle /\ AnaIdle /\ QuaIdle /\ SnipIdle

\* lines 232-256
CallExtractCodeBlocks ==
  /\ callPc = "call"
  /\ callResult' = extractCodeBlocks(callArg.lines)
  /\ callPc' = "returned"
  /\ UNCHANGED callArg
  /\ UNCHANGED <<grpVars, relVars, scoVars, rescVars, winVars, anaVars, quaVars, snipVars>>

BlocksNext == CallExtractCodeBlocks

SpecBlocks == BlocksInit /\ [][BlocksNext]_vars

\* an added line of the diff whose trimmed content is longer than 10
\* characters and starts no comment
NonTrivialAdded(line) ==
  /\ StartsWith(line, <<"+">>)
  /\ LET content == Trim(SubSeq(line, 2, Len(line)))
     IN /\ Len(content) > 10
        /\ ~StartsWith(content, <<"/","/">>)
        /\ ~StartsWith(content, <<"/","*">>)

\* C25: every returned block is a maximal run of at least 3 non-trivial
\* added lines that are consecutive in the diff: a removed line, a context
\* line, a short line or a comment line ends the current block.
C25_BlocksAreRunsOfTheDiff ==
  callPc = "returned"
    => \A n \in 1..Len(callResult) :
         \E i, j \in 1..Len(callArg.lines) :
           /\ j - i + 1 >= 3
           /\ \A k \in i..j : NonTrivialAdded(callArg.lines[k])
           /\ i = 1 \/ ~NonTrivialAdded(callArg.lines[i - 1])
           /\ j = Len(callArg.lines) \/ ~NonTrivialAdded(callArg.lines[j + 1])
           /\ callResult[n] = JoinLines([k \in 1..(j - i + 1) |->
                                Trim(SubSeq(callArg.lines[i + k - 1], 2,
                                            Len(callArg.lines[i + k - 1])))])

\* the code text a snippet carries
CodeOf(s) == IF s.type = "improvement" THEN s.snippet.code ELSE s.snippet

\* C26: the snippets are deduplicated before they are ranked: the returned
\* list never holds two snippets with the same owning pull request, filename
\* and code text, also when one losing block falls in the similarity band
\* of several winning blocks.
C26_NoDuplicateSnippets ==
  spc = "returned"
    => \A i, j \in 1..Len(ranked) :
         (/\ ranked[i].pr = ranked[j].pr
          /\ ranked[i].filename = ranked[j].filename
          /\ CodeOf(ranked[i]) = CodeOf(ranked[j])) => i = j

\* C27: every member of every emitted group is an element of the list prs
\* passed to groupPRsByFeature, also when the open pull requests of the
\* hosting service hold pull requests outside prs.
C27_MembersComeFromPrs ==
  GroupedNumbers \subseteq Range(prs)

\* C28: the testing sub-score never exceeds 61 (caps 100, 30, 40, 30
\* blended 0.4/0.2/0.3/0.1) and is 60 on the fallback path, so with the
\* default testingMin of 70 the verdict meetsThresholds.testing is false in
\* every returned report.
C28_TestingNeverMeetsDefault ==
  /\ scores.testing # NoScore => scores.testing <= 61 * SCALE
  /\ "testing" \in failed => scores.testing = 60 * SCALE
  /\ (report.kind \in {"complete", "default"} /\ config.thresholds.testingMin = 70)
       => ~report.meetsThresholds.testing

\* a complete report under the default thresholds whose testing sub-score
\* is the largest one, 61
C28_Witness ==
  /\ pc = "returned"
  /\ report.kind = "complete"
  /\ config = DefaultScoring
  /\ "testing" \notin failed
  /\ report.scores.testing = 61 * SCALE
  /\ ~report.meetsThresholds.testing

\* C29: with the default weights (0.30, 0.25, 0.20, 0.15, 0.10) and
\* autoMergeScore 90 the weighted score of every returned report is below
\* 90, so meetsThresholds.autoMergeEligible is never true.
C29_NeverAutoMergeEligible ==
  (report.kind \in {"complete", "default"} /\ config = DefaultScoring)
    => /\ report.weightedScore < 90 * HUNDRED
       /\ ~report.meetsThresholds.autoMergeEligible

\* a complete report under the default configuration whose five sub-scores
\* are the largest ones: 100, 61, 89.25, 100 and 260/3, weighted 86.77
C29_Witness ==
  /\ pc = "returned"
  /\ report.kind = "complete"
  /\ config = DefaultScoring
  /\ failed = {}
  /\ report.scores.codeQuality = HUNDRED
  /\ report.scores.testing = 61 * SCALE
  /\ report.scores.performance * 4 = 357 * SCALE
  /\ report.scores.security = HUNDRED
  /\ report.scores.documentation * 3 = 260 * SCALE
  /\ report.weightedScore * 3 = 26030 * SCALE
  /\ ~report.meetsThresholds.autoMergeEligible

(***************************************************************************)
(* detectDuplication called on a list of files and then on the same files  *)
(* in another order                                                        *)
(***************************************************************************)
MaxDupFiles == 3    \* most files of a list

\* a block of one repeated word, a block that holds that word once, a copy
\* of the latter, and a file that is no code file
DupFiles ==
  {[filename |-> <<"s","u","m",".","j","s">>, status |-> "modified",
     patch |-> Patch(<<<<"+","s","u","m"," ","="," ","s","u","m"," ","+"," ","s","u","m",";">>,
                     <<"+","s","u","m"," ","="," ","s","u","m"," ","+"," ","s","u","m",";">>,
                     <<"+","s","u","m"," ","="," ","s","u","m"," ","+"," ","s","u","m",";">>>>)],
   [filename |-> <<"m","i","x",".","j","s">>, status |-> "modified",
     patch |-> Patch(<<<<"+","s","u","m"," ","="," ","f","i","r","s","t"," ","+"," ","s","e","c","o","n","d",";">>,
                     <<"+","f","i","r","s","t"," ","="," ","s","e","c","o","n","d"," ","+"," ","t","h","i","r","d",";">>,
                     <<"+","t","h","i","r","d"," ","="," ","f","o","u","r","t","h"," ","+"," ","f","i","f","t","h",";">>>>)],
   [filename |-> <<"c","o","p","y",".","j","s">>, status |-> "modified",
     patch |-> Patch(<<<<"+","s","u","m"," ","="," ","f","i","r","s","t"," ","+"," ","s","e","c","o","n","d",";">>,
                     <<"+","f","i","r","s","t"," ","="," ","s","e","c","o","n","d"," ","+"," ","t","h","i","r","d",";">>,
                     <<"+","t","h","i","r","d"," ","="," ","f","o","u","r","t","h"," ","+"," ","f","i","f","t","h",";">>>>)],
   [filename |-> <<"n","o","t","e","s",".","m","d">>, status |-> "modified",
     patch |-> Patch(<<<<"+","s","u","m"," ","="," ","f","i","r","s","t"," ","+"," ","s","e","c","o","n","d",";">>,
                     <<"+","f","i","r","s","t"," ","="," ","s","e","c","o","n","d"," ","+"," ","t","h","i","r","d",";">>,
                     <<"+","t","h","i","r","d"," ","="," ","f","o","u","r","t","h"," ","+"," ","f","i","f","t","h",";">>>>)]}

DupInit ==
  /\ \E first \in ListsOf(DupFiles, MaxDupFiles) :
       \E second \in {l \in ListsOf(DupFiles, MaxDupFiles) : Range(l) = Range(first)} :
         callArg = [first |-> first, second |-> second]
  /\ callResult = <<>>
  /\ callPc = "call"
  /\ GrpIdle /\ RelIdle /\ ScoIdle
  /\ ResIdle /\ WinIdle /\ AnaIdle /\ QuaIdle /\ SnipIdle

\* lines 205-227, on the files in the first order
DetectDuplicationListed ==
  /\ callPc = "call"
  /\ callResult' = <<detectDuplication(callArg.first)>>
  /\ callPc' = "again"
  /\ UNCHANGED callArg
  /\ UNCHANGED <<grpVars, relVars, scoVars, rescVars, winVars, anaVars, quaVars, snipVars>>

\* lines 205-227, on the files in the second order
DetectDuplicationPermuted ==
  /\ callPc = "again"
  /\ callResult' = Append(callResult, detectDuplication(callArg.second))
  /\ callPc' = "returned"
  /\ UNCHANGED callArg
  /\ UNCHANGED <<grpVars, relVars, scoVars, rescVars, winVars, anaVars, quaVars, snipVars>>

DupNext == DetectDuplicationListed \/ DetectDuplicationPermuted

SpecDup == DupInit /\ [][DupNext]_vars

\* the blocks detectDuplication compares
CodeBlocksOf(fs) ==
  ConcatAll([i \in 1..Len(Analysed(fs)) |-> extractCodeBlocks(Analysed(fs)[i].patch.lines)])

\* C30: the duplication score is between 0 and 10 and does not depend on
\* the order of the files: areSimilarBlocks(x, y) = areSimilarBlocks(y, x)
\* for all blocks, and detectDuplication returns the same count for every
\* permutation of the same list of files.
C30_DuplicationOrderFree ==
  callPc = "returned"
    => /\ \A n \in 1..2 : callResult[n].kind = "value" /\ callResult[n].value \in 0..10
       /\ \A x, y \in Range(CodeBlocksOf(callArg.first)) :
            areSimilarBlocks(x, y) = areSimilarBlocks(y, x)
       /\ callResult[1] = callResult[2]

====
